---------------------------- MODULE Spec2Model ----------------------------
(***************************************************************************)
(* Billing integration: tier management (TierManagementService), customer  *)
(* onboarding (CustomerOnboardingService), the mock subscription provider  *)
(* (mock-metronome-server), the JSON storage mirror (JsonStorage) and the  *)
(* webhook processor with its retry helper (WebhookService).               *)
(*                                                                         *)
(* Money amounts are exact rationals [num, den]; the code computes them in *)
(* IEEE doubles, whose sign and zero tests agree with the exact value for  *)
(* the catalog's small integer prices.                                     *)
(***************************************************************************)
EXTENDS Integers, Sequences, FiniteSets, TLC

(* ------------------------------ bounds -------------------------------- *)
\* entity ids offered to the operations: 1..NumEntities
NumEntities == 1
\* customers the providers will create
MaxCustomers == 1
\* customers the providers will create in the specification of onboarding
MaxOnboardCustomers == 2
\* contracts the subscription provider will create
MaxContracts == 2
\* contracts the provider holds in the specification of reactivation
MaxReactivateContracts == 3
\* the clock stops at MaxNow ticks
MaxNow == 1
\* webhook deliveries received in one run, and deliveries in flight at once
MaxDeliveries == 3
MaxInFlight == 2
\* retry budgets and failure counts offered to the retry helper
MaxRetryBudget == 4
MaxFailures == 5
\* events appended to the event log in the log's own specification
MaxAppended == 1003
\* changeTier requests in progress at once, and the contracts the provider
\* will create while requests interleave
MaxCallers == 2
MaxRaceContracts == 3
\* credit records applied to the ledger in the ledger's own specification
MaxCredits == 4
\* scaled calendar: ticks per day, ticks per month, ticks per year
MsPerDay == 2
MonthLen == 3
YearLen == 4

(* --------------------------- tier catalog ----------------------------- *)
BillingTier == {"free", "pro", "team", "enterprise"}

BillingPeriods == {"monthly", "yearly"}

DEFAULT_TIER_CONFIGS ==
  [ free       |-> [monthlyPrice |-> 0,  yearlyPrice |-> 0,   monthlyCredits |-> 1000],
    pro        |-> [monthlyPrice |-> 9,  yearlyPrice |-> 90,  monthlyCredits |-> 10000],
    team       |-> [monthlyPrice |-> 29, yearlyPrice |-> 290, monthlyCredits |-> 50000],
    enterprise |-> [monthlyPrice |-> 0,  yearlyPrice |-> 0,   monthlyCredits |-> 0] ]

(* ------------------------------ helpers ------------------------------- *)
EntityIds == 1..NumEntities

\* provider-assigned ids; entity ids, customer ids and Stripe customer ids
\* live in disjoint ranges so that mixing them up is visible
CustId(n) == 100 + n

StripeId(n) == 200 + n

NoContract == [id |-> 0, customer_id |-> 0, tier |-> "none", status |-> "none",
               billing_period |-> "none", start_date |-> 0, end_date |-> 0,
               created_at |-> 0]

NoAmount == [num |-> 0, den |-> 1]

Abs(x) == IF x < 0 THEN 0 - x ELSE x

\* Math.ceil(a / b) for b > 0
Ceil(a, b) == 0 - ((0 - a) \div b)

\* the sum of the balance fields of a list of credit records
RECURSIVE SumAmounts(_)
SumAmounts(s) == IF s = <<>> THEN 0 ELSE Head(s).balance + SumAmounts(Tail(s))

Indexes(s) == 1..Len(s)

\* Array.prototype.find over Object.values: the first element, in insertion
\* order, of the elements at the given indexes
FirstIndex(S) == IF S = {} THEN 0 ELSE CHOOSE i \in S : \A j \in S : i <= j

VARIABLES
  storage,          \* mock provider: customers, contracts, invoices, credits
  data,             \* JsonStorage file content (local mirror)
  stripe,           \* payment provider: customers, paymentMethods, charges
  now,              \* wall clock, in ticks
  last,             \* the call in progress: inputs, provider calls, outcome
  processedEvents,  \* WebhookService.processedEvents
  deliveries,       \* webhook deliveries in flight, one per slot
  received,         \* number of deliveries received so far
  dispatched,       \* per provider and event id: calls of handle...Event
  completed,        \* per provider and event id: dispatches that succeeded
  handlerRuns,      \* per provider and event id: per-type handlers run
  retry,            \* one run of retryWebhookProcessing
  inflight,         \* changeTier requests in progress, one per caller
  calc              \* one evaluation of calculateProratedAmount

vars == <<storage, data, stripe, now, last, processedEvents, deliveries, received,
          dispatched, completed, handlerRuns, retry, inflight, calc>>

billingVars == <<storage, stripe, now, last>>

webhookVars == <<processedEvents, deliveries, received, dispatched, completed,
                 handlerRuns>>

(* ------------------------- JsonStorage reads -------------------------- *)
getMetronomeCustomerByEntityId(d, entityId) ==
  LET i == FirstIndex({k \in Indexes(d.metronomeCustomers) :
                         d.metronomeCustomers[k].entity_id = entityId})
  IN  IF i = 0 THEN 0 ELSE d.metronomeCustomers[i].id

getStripeCustomerByEntityId(d, entityId) ==
  LET i == FirstIndex({k \in Indexes(d.stripeCustomers) :
                         d.stripeCustomers[k].entity_id = entityId})
  IN  IF i = 0 THEN 0 ELSE d.stripeCustomers[i].id

getContractsByCustomerId(d, customerId) ==
  SelectSeq(d.contracts, LAMBDA c : c.customer_id = customerId)

getActiveContractByCustomerId(d, customerId) ==
  LET cs == SelectSeq(getContractsByCustomerId(d, customerId),
                      LAMBDA c : c.status = "active")
  IN  IF cs = <<>> THEN NoContract ELSE Head(cs)

\* data.contracts[contract.id] = contract: an existing key keeps its place
saveContract(cs, contract) ==
  IF \E k \in Indexes(cs) : cs[k].id = contract.id
  THEN [k \in Indexes(cs) |-> IF cs[k].id = contract.id THEN contract ELSE cs[k]]
  ELSE Append(cs, contract)


saveInvoice(is, invoice) ==
  IF \E k \in Indexes(is) : is[k].id = invoice.id
  THEN [k \in Indexes(is) |-> IF is[k].id = invoice.id THEN invoice ELSE is[k]]
  ELSE Append(is, invoice)

(* ----------------------- mock provider endpoints ---------------------- *)
PeriodLen(billing_period) == IF billing_period = "monthly" THEN MonthLen ELSE YearLen

\* POST /api/v1/contracts with the start date taken from the end date
NewContract_StartAtEnd(st, customer_id, tier, billing_period, t) ==
  [id |-> Len(st.contracts) + 1, customer_id |-> customer_id, tier |-> tier,
   status |-> "active", billing_period |-> billing_period,
   start_date |-> t + PeriodLen(billing_period),
   end_date |-> t + PeriodLen(billing_period), created_at |-> t]

\* POST /api/v1/contracts: the contract the endpoint stores and returns
NewContract(st, customer_id, tier, billing_period, t) ==
  [id |-> Len(st.contracts) + 1, customer_id |-> customer_id, tier |-> tier,
   status |-> "active", billing_period |-> billing_period,
   start_date |-> t, end_date |-> t + PeriodLen(billing_period), created_at |-> t]

initializeCredits(credits, customerId, amount) ==
  Append(credits, [customer_id |-> customerId, amount |-> amount, balance |-> amount])

\* POST /api/v1/contracts: stores the contract and initializes credits
PostContracts(st, customer_id, tier, billing_period, t) ==
  [st EXCEPT !.contracts = Append(@, NewContract(st, customer_id, tier, billing_period, t)),
             !.credits = initializeCredits(@, customer_id,
                                           DEFAULT_TIER_CONFIGS[tier].monthlyCredits)]

\* POST /api/v1/contracts/:id/cancel
PostContractsCancel(st, id) ==
  [st EXCEPT !.contracts[id].status = "cancelled"]

\* PATCH /api/v1/contracts/:id with body {billing_period}; an undefined
\* billing_period is dropped by JSON serialisation and the body is empty
PatchContracts(st, id, billing_period) ==
  IF billing_period = "none" THEN st
  ELSE [st EXCEPT !.contracts[id].billing_period = billing_period]

\* POST /api/v1/invoices: the invoice the endpoint stores and returns
NewInvoice(st, customer_id, contract_id, amount) ==
  [id |-> Len(st.invoices) + 1, customer_id |-> customer_id,
   contract_id |-> contract_id, amount |-> amount, status |-> "open",
   line_items |-> <<amount>>]

PostInvoices(st, customer_id, contract_id, amount) ==
  [st EXCEPT !.invoices = Append(@, NewInvoice(st, customer_id, contract_id, amount))]

\* POST /api/v1/invoices/:id/pay that answers without storing the update
PostInvoicesPay_NotStored(st, id) == st

\* POST /api/v1/invoices/:id/pay
PostInvoicesPay(st, id) ==
  [st EXCEPT !.invoices[id].status = "paid"]

\* POST /api/v1/credits that adds the amount to the customer's record when
\* the customer has one
PostCredits_Merge(st, customer_id, amount) ==
  LET own == {i \in Indexes(st.credits) : st.credits[i].customer_id = customer_id}
  IN  IF own = {}
      THEN [st EXCEPT !.credits = Append(@, [customer_id |-> customer_id,
                                             amount |-> amount, balance |-> amount])]
      ELSE [st EXCEPT !.credits[FirstIndex(own)].balance = @ + amount]

\* POST /api/v1/credits
PostCredits(st, customer_id, amount) ==
  [st EXCEPT !.credits = Append(@, [customer_id |-> customer_id, amount |-> amount,
                                    balance |-> amount])]

\* GET /api/v1/credits/balance
GetCreditsBalance(st, customerId) ==
  SumAmounts(SelectSeq(st.credits, LAMBDA c : c.customer_id = customerId))

(* ------------------------ proration calculator ------------------------ *)
TierPrice(tier, billingPeriod) ==
  IF billingPeriod = "monthly" THEN DEFAULT_TIER_CONFIGS[tier].monthlyPrice
  ELSE DEFAULT_TIER_CONFIGS[tier].yearlyPrice

\* the exact value of (newPrice/totalDays)*remainingDays -
\* (oldPrice/totalDays)*remainingDays as num/den; den = 0 is a division by zero
calculateProratedAmount(start_date, end_date, t, oldTier, newTier, billingPeriod) ==
  LET oldPrice == TierPrice(oldTier, billingPeriod)
      newPrice == TierPrice(newTier, billingPeriod)
      totalDays == Ceil(end_date - start_date, MsPerDay)
      remainingDays == Ceil(end_date - t, MsPerDay)
  IN  IF t >= end_date
      THEN [num |-> newPrice - oldPrice, den |-> 1]
      ELSE [num |-> newPrice * remainingDays - oldPrice * remainingDays,
            den |-> totalDays]

AbsAmount(a) == [num |-> Abs(a.num), den |-> a.den]

(* ----------------- the proration in binary64 arithmetic ---------------- *)
\* A JavaScript number is an IEEE 754 binary64 value. A finite nonzero one is
\* (-1)^neg * m * 2^e with m a significand of Precision bits, written here as
\* the sequence of its bits, most significant first; zero has no bits. The
\* amounts computed here are far from the subnormal and the overflow range.
Precision == 53

Zero64 == [neg |-> FALSE, m |-> <<>>, e |-> 0]

Zeros(k) == [i \in 1..k |-> 0]

\* the bits of the natural n, in w places
BitsOfNatW(n, w) == [i \in 1..w |-> (n \div 2 ^ (w - i)) % 2]

\* the number of bits of the natural n (below 2^30)
BitLength(n) == IF n = 0 THEN 0 ELSE CHOOSE k \in 1..30 : 2 ^ (k - 1) <= n /\ n < 2 ^ k

BitsOfNat(n) == BitsOfNatW(n, BitLength(n))

\* the natural a sequence of at most 30 bits stands for
RECURSIVE NatOfBits(_)
NatOfBits(bits) ==
  LET n == Len(bits)
      h == n \div 2
  IN  IF n = 0 THEN 0
      ELSE IF n = 1 THEN bits[1]
      ELSE NatOfBits(SubSeq(bits, 1, h)) * 2 ^ (n - h) + NatOfBits(SubSeq(bits, h + 1, n))

\* bits without its leading zeros
Strip(bits) ==
  LET ones == {i \in 1..Len(bits) : bits[i] = 1}
  IN  IF ones = {} THEN <<>>
      ELSE SubSeq(bits, CHOOSE i \in ones : \A j \in ones : i <= j, Len(bits))

\* bits + 1
Increment(bits) ==
  LET zeros == {i \in 1..Len(bits) : bits[i] = 0}
      k == CHOOSE i \in zeros : \A j \in zeros : j <= i
  IN  IF zeros = {} THEN <<1>> \o Zeros(Len(bits))
      ELSE [i \in 1..Len(bits) |-> IF i < k THEN bits[i] ELSE IF i = k THEN 1 ELSE 0]

\* the binary64 value nearest to bits * 2^e (plus a nonzero amount below the
\* last bit when sticky), ties to the even significand
Round64(bits0, e, sticky) ==
  LET bits == Strip(bits0)
      n == Len(bits)
      kept == SubSeq(bits, 1, Precision)
      below == sticky \/ \E i \in (Precision + 2)..n : bits[i] = 1
      up == bits[Precision + 1] = 1 /\ (below \/ kept[Precision] = 1)
      inc == IF up THEN Increment(kept) ELSE kept
  IN  IF n = 0 THEN Zero64
      ELSE IF n <= Precision
      THEN [neg |-> FALSE, m |-> bits \o Zeros(Precision - n),
            e |-> e - (Precision - n)]
      ELSE IF Len(inc) > Precision
      THEN [neg |-> FALSE, m |-> SubSeq(inc, 1, Precision),
            e |-> e + (n - Precision) + 1]
      ELSE [neg |-> FALSE, m |-> inc, e |-> e + (n - Precision)]

Neg64(x) == IF x.m = <<>> THEN x ELSE [x EXCEPT !.neg = ~x.neg]

\* an integer as a binary64 value (exact below 2^53)
FromInt64(k) ==
  IF k < 0 THEN Neg64(Round64(BitsOfNat(0 - k), 0, FALSE))
  ELSE Round64(BitsOfNat(k), 0, FALSE)

\* 2^i modulo n, for i up to 90 and n below 2^10
Pow2Mod(i, n) ==
  LET a == IF i > 30 THEN 30 ELSE i
      b == IF i - a > 30 THEN 30 ELSE i - a
      c == i - a - b
  IN  ((((2 ^ a) % n) * ((2 ^ b) % n)) % n * ((2 ^ c) % n)) % n

\* p / n for naturals p and n > 0: the quotient is taken to enough places
\* behind the point to hold Precision + 2 significant bits; the remainder
\* before place j is (p * 2^(j-1)) mod n, and the bit of place j tells
\* whether twice that remainder reaches n
Div64(p, n) ==
  LET places == Precision + 2 + BitLength(n)
      rem(j) == ((p % n) * Pow2Mod(j, n)) % n
      q == BitsOfNat(p \div n)
           \o [j \in 1..places |-> IF 2 * rem(j - 1) >= n THEN 1 ELSE 0]
  IN  Round64(q, 0 - places, rem(places) # 0)

\* long naturals are worked on in limbs of LimbBits bits, the least
\* significant limb being limb 0
LimbBits == 18

LimbBase == 2 ^ LimbBits

Limb(bits, k) ==
  LET n == Len(bits)
      hi == n - k * LimbBits
      lo == IF hi - LimbBits + 1 < 1 THEN 1 ELSE hi - LimbBits + 1
  IN  IF hi < 1 THEN 0 ELSE NatOfBits(SubSeq(bits, lo, hi))

\* bits * r for a sequence of at most 3 limbs and a natural r below 2^10
MulBits(bits, r) ==
  LET p0 == Limb(bits, 0) * r
      p1 == Limb(bits, 1) * r + p0 \div LimbBase
      p2 == Limb(bits, 2) * r + p1 \div LimbBase
  IN  BitsOfNat(p2) \o BitsOfNatW(p1 % LimbBase, LimbBits)
                    \o BitsOfNatW(p0 % LimbBase, LimbBits)

\* x * r for a binary64 x >= 0 and a natural r
Mul64(x, r) == Round64(MulBits(x.m, r), x.e, FALSE)

\* a - b for sequences of at most 4 limbs, a >= b
SubBits(a, b) ==
  LET d0 == Limb(a, 0) - Limb(b, 0)
      d1 == Limb(a, 1) - Limb(b, 1) - (IF d0 < 0 THEN 1 ELSE 0)
      d2 == Limb(a, 2) - Limb(b, 2) - (IF d1 < 0 THEN 1 ELSE 0)
      d3 == Limb(a, 3) - Limb(b, 3) - (IF d2 < 0 THEN 1 ELSE 0)
  IN  BitsOfNat(d3) \o BitsOfNatW((d2 + LimbBase) % LimbBase, LimbBits)
                    \o BitsOfNatW((d1 + LimbBase) % LimbBase, LimbBits)
                    \o BitsOfNatW((d0 + LimbBase) % LimbBase, LimbBits)

\* a < b for bit sequences of one length
Less(a, b) ==
  \E i \in 1..Len(a) : a[i] < b[i] /\ \A j \in 1..(i - 1) : a[j] = b[j]

\* x - y for binary64 values x >= 0 and y >= 0
Sub64(x, y) ==
  LET e == IF x.e < y.e THEN x.e ELSE y.e
      a0 == x.m \o Zeros(x.e - e)
      b0 == y.m \o Zeros(y.e - e)
      n == IF Len(a0) > Len(b0) THEN Len(a0) ELSE Len(b0)
      a == Zeros(n - Len(a0)) \o a0
      b == Zeros(n - Len(b0)) \o b0
  IN  IF y.m = <<>> THEN x
      ELSE IF x.m = <<>> THEN Neg64(y)
      ELSE IF a = b THEN Zero64
      ELSE IF Less(a, b) THEN Neg64(Round64(SubBits(b, a), e, FALSE))
      ELSE Round64(SubBits(a, b), e, FALSE)

(* --------------------------- last-call record ------------------------- *)
NoCall == [op |-> "none", entityId |-> 0, tier |-> "none", billingPeriod |-> "none",
           status |-> "none", error |-> "none", calls |-> <<>>,
           resEntityId |-> 0, oldTier |-> "none", newTier |-> "none",
           contract |-> NoContract, proratedAmount |-> NoAmount,
           hasProrated |-> FALSE, failed |-> "none"]

Call(op, entityId, tier, billingPeriod) ==
  [NoCall EXCEPT !.op = op, !.entityId = entityId, !.tier = tier,
                 !.billingPeriod = billingPeriod]

\* the call throws; a rejected remote call is the last one made
Thrown(call, error, calls) ==
  [call EXCEPT !.status = "error", !.error = error, !.calls = calls,
               !.failed = IF error \in {"remote_failure", "payment_failed"}
                          THEN calls[Len(calls)] ELSE "none"]

If(cond, s) == IF cond THEN <<s>> ELSE <<>>

(* ----------------------- webhook event vocabulary --------------------- *)
Providers == {"metronome", "stripe"}

EventIds == {"evt_1", "evt_2"}

MetronomeWebhookEventType ==
  {"customer.created", "customer.updated", "contract.created", "contract.updated",
   "contract.cancelled", "invoice.created", "invoice.paid", "invoice.failed",
   "credit.applied", "credit.expired"}

StripeWebhookEventType ==
  {"payment_method.attached", "payment_method.detached", "payment_intent.succeeded",
   "payment_intent.failed", "charge.succeeded", "charge.failed", "customer.created",
   "customer.updated"}

\* event types offered to the processor: one known to both providers, one
\* known to each provider only, and one known to neither
EventTypeInputs == {"customer.created", "invoice.paid", "charge.failed", "account.closed"}

Slots == 1..MaxInFlight

\* attempts: the calls of the event handler made for the delivery
IdleDelivery == [pc |-> "idle", provider |-> "none", id |-> "none", type |-> "none",
                 result |-> "none", attempts |-> 0]

\* value: the invocation of fn whose result was returned; error: the
\* invocation of fn whose error was thrown to the caller
IdleRetry == [pc |-> "idle", budget |-> 0, retries |-> 0, failures |-> 0, calls |-> 0,
              delays |-> <<>>, result |-> "none", error |-> 0, value |-> 0]

\* concurrent changeTier requests
Callers == 1..MaxCallers

IdleChange == [pc |-> "idle", entityId |-> 0, newTier |-> "none",
               billingPeriod |-> "none", customerId |-> 0,
               currentContract |-> NoContract, newContract |-> NoContract,
               stripeCustomer |-> 0, proratedAmount |-> NoAmount, invoice |-> 0,
               result |-> "none", error |-> "none"]

\* one evaluation of calculateProratedAmount: the contract's dates, the
\* instant, the tiers and the billing period, the amount, and the amount of
\* the reverse transition
IdleCalc == [pc |-> "idle", start_date |-> 0, end_date |-> 0, t |-> 0,
             oldTier |-> "none", newTier |-> "none", billingPeriod |-> "none",
             amount |-> Zero64, reverse |-> Zero64]

\* the lengths in days of the periods setMonth(+1) and setFullYear(+1) give
PeriodDays == {28, 29, 30, 31, 365, 366}

\* the inputs of one evaluation: a contract of d days from instant 0, an
\* instant, two tiers and a billing period
CalcInput(d, t, a, b, p) ==
  [IdleCalc EXCEPT !.pc = "input", !.end_date = d * MsPerDay, !.t = t,
                   !.oldTier = a, !.newTier = b, !.billingPeriod = p]

(* ------------------------------- Init --------------------------------- *)
InitService ==
  /\ storage = [customers |-> <<>>, contracts |-> <<>>, invoices |-> <<>>,
                credits |-> <<>>]
  /\ data = [entities |-> {}, metronomeCustomers |-> <<>>, stripeCustomers |-> <<>>,
             contracts |-> <<>>, invoices |-> <<>>, webhookEvents |-> <<>>]
  /\ stripe = [customers |-> <<>>, paymentMethods |-> {}, charges |-> <<>>]
  /\ now = 0
  /\ last = NoCall
  /\ processedEvents = {}
  /\ deliveries = [s \in Slots |-> IdleDelivery]
  /\ received = 0
  /\ dispatched = [k \in Providers \X EventIds |-> 0]
  /\ completed = [k \in Providers \X EventIds |-> 0]
  /\ handlerRuns = [k \in Providers \X EventIds |-> 0]
  /\ retry = IdleRetry
  /\ inflight = [c \in Callers |-> IdleChange]

Init == InitService /\ calc = IdleCalc

(* ------------------- TierManagementService.changeTier ----------------- *)
\* remote calls of changeTier that the environment can make fail
ChangeTierFailures ==
  {"none", "cancelContract", "createContract", "applyCredit", "listPaymentMethods",
   "createCharge", "createInvoice", "payInvoice", "updateContract"}

\* updateBillingPeriod: PATCH the contract, mirror the answer, build the result
updateBillingPeriod(call, contract, newBillingPeriod, fail) ==
  IF fail = "updateContract"
  THEN /\ last' = Thrown(call, "remote_failure", <<"updateContract">>)
       /\ UNCHANGED <<storage, data, stripe, now>>
  ELSE LET st == PatchContracts(storage, contract.id, newBillingPeriod)
           updated == st.contracts[contract.id]
       IN  /\ storage' = st
           /\ data' = [data EXCEPT !.contracts = saveContract(@, updated)]
           /\ last' = [call EXCEPT !.status = "ok", !.calls = <<"updateContract">>,
                                   !.resEntityId = contract.customer_id,
                                   !.oldTier = contract.tier,
                                   !.newTier = contract.tier,
                                   !.contract = updated]
           /\ UNCHANGED <<stripe, now>>

\* swapContract with a failure of cancelContract caught and ignored
swapContract_IgnoreCancelFailure(call, entityId, customerId, currentContract, newTier, billingPeriod, fail) ==
  LET oldTier == currentContract.tier
      period == IF billingPeriod = "none" THEN currentContract.billing_period
                ELSE billingPeriod
      proratedAmount == calculateProratedAmount(currentContract.start_date,
                          currentContract.end_date, now, oldTier, newTier, period)
      creditDifference == DEFAULT_TIER_CONFIGS[newTier].monthlyCredits
                          - DEFAULT_TIER_CONFIGS[oldTier].monthlyCredits
      stripeCustomer == getStripeCustomerByEntityId(data, entityId)
      \* how far the call gets
      cancelOk == fail # "cancelContract"
      createOk == fail # "createContract"
      creditCall == createOk /\ creditDifference # 0
      creditOk == createOk /\ (creditDifference = 0 \/ fail # "applyCredit")
      payStage == creditOk /\ proratedAmount.num > 0
      listCall == payStage /\ stripeCustomer # 0
      listOk == listCall /\ fail # "listPaymentMethods"
      chargeCall == listOk /\ stripeCustomer \in stripe.paymentMethods
      chargeOk == chargeCall /\ fail # "createCharge"
      payOk == creditOk /\ (payStage => (listOk /\ (chargeCall => chargeOk)))
      invoiceCall == payOk /\ proratedAmount.num # 0
      invoiceOk == invoiceCall /\ fail # "createInvoice"
      payInvoiceCall == invoiceOk /\ proratedAmount.num < 0
      payInvoiceOk == payInvoiceCall /\ fail # "payInvoice"
      \* the provider after each call
      st1 == IF cancelOk THEN PostContractsCancel(storage, currentContract.id) ELSE storage
      st2 == IF createOk THEN PostContracts(st1, customerId, newTier, period, now) ELSE st1
      newContract == IF createOk THEN st2.contracts[Len(st2.contracts)] ELSE NoContract
      st3 == IF creditCall /\ creditOk THEN PostCredits(st2, customerId, creditDifference)
             ELSE st2
      st4 == IF invoiceOk
             THEN PostInvoices(st3, customerId, newContract.id, AbsAmount(proratedAmount))
             ELSE st3
      invoice == IF invoiceOk THEN st4.invoices[Len(st4.invoices)]
                 ELSE NewInvoice(st3, 0, 0, NoAmount)
      st5 == IF payInvoiceOk THEN PostInvoicesPay(st4, invoice.id) ELSE st4
      calls == <<"cancelContract">> \o If(TRUE, "createContract")
               \o If(creditCall, "applyCredit") \o If(listCall, "listPaymentMethods")
               \o If(chargeCall, "createCharge") \o If(invoiceCall, "createInvoice")
               \o If(payInvoiceCall, "payInvoice")
      error == IF ~createOk \/ ~creditOk THEN "remote_failure"
               ELSE IF payStage /\ stripeCustomer = 0 THEN "stripe_customer_not_found"
               ELSE IF payStage /\ ~listOk THEN "remote_failure"
               ELSE "payment_failed"
  IN  /\ createOk => Len(storage.contracts) < MaxContracts
      /\ storage' = st5
      /\ data' = [data EXCEPT
                    !.contracts = IF createOk THEN saveContract(@, newContract) ELSE @,
                    !.invoices = IF invoiceOk THEN saveInvoice(@, invoice) ELSE @]
      /\ stripe' = IF chargeOk
                   THEN [stripe EXCEPT !.charges =
                           Append(@, [customer |-> stripeCustomer,
                                      amount |-> proratedAmount,
                                      kind |-> "charge"])]
                   ELSE stripe
      /\ last' = IF payOk
                 THEN [call EXCEPT !.status = "ok", !.calls = calls,
                                   !.resEntityId = entityId, !.oldTier = oldTier,
                                   !.newTier = newTier, !.contract = newContract,
                                   !.proratedAmount = proratedAmount,
                                   !.hasProrated = TRUE,
                                   !.failed =
                                      IF ~cancelOk THEN "cancelContract"
                                      ELSE IF invoiceCall /\ ~invoiceOk THEN "createInvoice"
                                      ELSE IF payInvoiceCall /\ ~payInvoiceOk
                                      THEN "payInvoice" ELSE "none"]
                 ELSE Thrown(call, error, calls)
      /\ UNCHANGED now

\* the cancel / create / credit / charge / invoice path of changeTier
swapContract(call, entityId, customerId, currentContract, newTier, billingPeriod, fail) ==
  LET oldTier == currentContract.tier
      period == IF billingPeriod = "none" THEN currentContract.billing_period
                ELSE billingPeriod
      proratedAmount == calculateProratedAmount(currentContract.start_date,
                          currentContract.end_date, now, oldTier, newTier, period)
      creditDifference == DEFAULT_TIER_CONFIGS[newTier].monthlyCredits
                          - DEFAULT_TIER_CONFIGS[oldTier].monthlyCredits
      stripeCustomer == getStripeCustomerByEntityId(data, entityId)
      \* how far the call gets
      cancelOk == fail # "cancelContract"
      createOk == cancelOk /\ fail # "createContract"
      creditCall == createOk /\ creditDifference # 0
      creditOk == createOk /\ (creditDifference = 0 \/ fail # "applyCredit")
      payStage == creditOk /\ proratedAmount.num > 0
      listCall == payStage /\ stripeCustomer # 0
      listOk == listCall /\ fail # "listPaymentMethods"
      chargeCall == listOk /\ stripeCustomer \in stripe.paymentMethods
      chargeOk == chargeCall /\ fail # "createCharge"
      payOk == creditOk /\ (payStage => (listOk /\ (chargeCall => chargeOk)))
      invoiceCall == payOk /\ proratedAmount.num # 0
      invoiceOk == invoiceCall /\ fail # "createInvoice"
      payInvoiceCall == invoiceOk /\ proratedAmount.num < 0
      payInvoiceOk == payInvoiceCall /\ fail # "payInvoice"
      \* the provider after each call
      st1 == IF cancelOk THEN PostContractsCancel(storage, currentContract.id) ELSE storage
      st2 == IF createOk THEN PostContracts(st1, customerId, newTier, period, now) ELSE st1
      newContract == IF createOk THEN st2.contracts[Len(st2.contracts)] ELSE NoContract
      st3 == IF creditCall /\ creditOk THEN PostCredits(st2, customerId, creditDifference)
             ELSE st2
      st4 == IF invoiceOk
             THEN PostInvoices(st3, customerId, newContract.id, AbsAmount(proratedAmount))
             ELSE st3
      invoice == IF invoiceOk THEN st4.invoices[Len(st4.invoices)]
                 ELSE NewInvoice(st3, 0, 0, NoAmount)
      st5 == IF payInvoiceOk THEN PostInvoicesPay(st4, invoice.id) ELSE st4
      calls == <<"cancelContract">> \o If(cancelOk, "createContract")
               \o If(creditCall, "applyCredit") \o If(listCall, "listPaymentMethods")
               \o If(chargeCall, "createCharge") \o If(invoiceCall, "createInvoice")
               \o If(payInvoiceCall, "payInvoice")
      error == IF ~createOk \/ ~creditOk THEN "remote_failure"
               ELSE IF payStage /\ stripeCustomer = 0 THEN "stripe_customer_not_found"
               ELSE IF payStage /\ ~listOk THEN "remote_failure"
               ELSE "payment_failed"
  IN  /\ createOk => Len(storage.contracts) < MaxContracts
      /\ storage' = st5
      /\ data' = [data EXCEPT
                    !.contracts = IF createOk THEN saveContract(@, newContract) ELSE @,
                    !.invoices = IF invoiceOk THEN saveInvoice(@, invoice) ELSE @]
      /\ stripe' = IF chargeOk
                   THEN [stripe EXCEPT !.charges =
                           Append(@, [customer |-> stripeCustomer,
                                      amount |-> proratedAmount,
                                      kind |-> "charge"])]
                   ELSE stripe
      /\ last' = IF payOk
                 THEN [call EXCEPT !.status = "ok", !.calls = calls,
                                   !.resEntityId = entityId, !.oldTier = oldTier,
                                   !.newTier = newTier, !.contract = newContract,
                                   !.proratedAmount = proratedAmount,
                                   !.hasProrated = TRUE,
                                   !.failed =
                                      IF invoiceCall /\ ~invoiceOk THEN "createInvoice"
                                      ELSE IF payInvoiceCall /\ ~payInvoiceOk
                                      THEN "payInvoice" ELSE "none"]
                 ELSE Thrown(call, error, calls)
      /\ UNCHANGED now

\* changeTier that updates the billing period whenever the tier is unchanged
changeTier_AlwaysUpdate(entityId, newTier, billingPeriod, fail) ==
  LET call == Call("changeTier", entityId, newTier, billingPeriod)
      customerId == getMetronomeCustomerByEntityId(data, entityId)
      currentContract == getActiveContractByCustomerId(data, customerId)
  IN  IF customerId = 0
      THEN /\ last' = Thrown(call, "customer_not_found", <<>>)
           /\ UNCHANGED <<storage, data, stripe, now>>
      ELSE IF currentContract = NoContract
      THEN /\ last' = Thrown(call, "no_active_contract", <<>>)
           /\ UNCHANGED <<storage, data, stripe, now>>
      ELSE IF newTier \notin DOMAIN DEFAULT_TIER_CONFIGS
      THEN /\ last' = Thrown(call, "invalid_tier", <<>>)
           /\ UNCHANGED <<storage, data, stripe, now>>
      ELSE IF currentContract.tier = newTier
      THEN updateBillingPeriod(call, currentContract, billingPeriod, fail)
      ELSE swapContract(call, entityId, customerId, currentContract, newTier,
                        billingPeriod, fail)

\* changeTier without the unchanged-tier branch: a change of billing period
\* goes through cancel and create
changeTier_AlwaysSwap(entityId, newTier, billingPeriod, fail) ==
  LET call == Call("changeTier", entityId, newTier, billingPeriod)
      customerId == getMetronomeCustomerByEntityId(data, entityId)
      currentContract == getActiveContractByCustomerId(data, customerId)
  IN  IF customerId = 0
      THEN /\ last' = Thrown(call, "customer_not_found", <<>>)
           /\ UNCHANGED <<storage, data, stripe, now>>
      ELSE IF currentContract = NoContract
      THEN /\ last' = Thrown(call, "no_active_contract", <<>>)
           /\ UNCHANGED <<storage, data, stripe, now>>
      ELSE IF newTier \notin DOMAIN DEFAULT_TIER_CONFIGS
      THEN /\ last' = Thrown(call, "invalid_tier", <<>>)
           /\ UNCHANGED <<storage, data, stripe, now>>
      ELSE IF currentContract.tier = newTier
              /\ currentContract.billing_period = billingPeriod
      THEN /\ last' = Thrown(call, "already_on_tier", <<>>)
           /\ UNCHANGED <<storage, data, stripe, now>>
      ELSE swapContract(call, entityId, customerId, currentContract, newTier,
                        billingPeriod, fail)

\* changeTier that falls back to the free tier when newTier is not in the
\* catalog
changeTier_DefaultTier(entityId, newTier, billingPeriod, fail) ==
  LET call == Call("changeTier", entityId, newTier, billingPeriod)
      customerId == getMetronomeCustomerByEntityId(data, entityId)
      currentContract == getActiveContractByCustomerId(data, customerId)
      tier == IF newTier \in DOMAIN DEFAULT_TIER_CONFIGS THEN newTier ELSE "free"
  IN  IF customerId = 0
      THEN /\ last' = Thrown(call, "customer_not_found", <<>>)
           /\ UNCHANGED <<storage, data, stripe, now>>
      ELSE IF currentContract = NoContract
      THEN /\ last' = Thrown(call, "no_active_contract", <<>>)
           /\ UNCHANGED <<storage, data, stripe, now>>
      ELSE IF currentContract.tier = tier
      THEN IF currentContract.billing_period # billingPeriod
           THEN updateBillingPeriod(call, currentContract, billingPeriod, fail)
           ELSE /\ last' = Thrown(call, "already_on_tier", <<>>)
                /\ UNCHANGED <<storage, data, stripe, now>>
      ELSE swapContract(call, entityId, customerId, currentContract, tier,
                        billingPeriod, fail)

changeTier(entityId, newTier, billingPeriod, fail) ==
  LET call == Call("changeTier", entityId, newTier, billingPeriod)
      customerId == getMetronomeCustomerByEntityId(data, entityId)
      currentContract == getActiveContractByCustomerId(data, customerId)
  IN  IF customerId = 0
      THEN /\ last' = Thrown(call, "customer_not_found", <<>>)
           /\ UNCHANGED <<storage, data, stripe, now>>
      ELSE IF currentContract = NoContract
      THEN /\ last' = Thrown(call, "no_active_contract", <<>>)
           /\ UNCHANGED <<storage, data, stripe, now>>
      ELSE IF newTier \notin DOMAIN DEFAULT_TIER_CONFIGS
      THEN /\ last' = Thrown(call, "invalid_tier", <<>>)
           /\ UNCHANGED <<storage, data, stripe, now>>
      ELSE IF currentContract.tier = newTier
      THEN IF currentContract.billing_period # billingPeriod
           THEN updateBillingPeriod(call, currentContract, billingPeriod, fail)
           ELSE /\ last' = Thrown(call, "already_on_tier", <<>>)
                /\ UNCHANGED <<storage, data, stripe, now>>
      ELSE swapContract(call, entityId, customerId, currentContract, newTier,
                        billingPeriod, fail)

(* ---------------- CustomerOnboardingService.onboardCustomer ----------- *)
OnboardFailures ==
  {"none", "createCustomer", "stripeCreateCustomer", "attachPaymentMethod",
   "createContract", "createInvoice", "createPaymentIntent", "payInvoice"}

onboardCustomer(entityId, tier, billingPeriod, paymentMethodId, fail) ==
  LET call == Call("onboardCustomer", entityId, tier, billingPeriod)
      tierConfig == DEFAULT_TIER_CONFIGS[tier]
      customerId == CustId(Len(storage.customers) + 1)
      stripeCustomer == StripeId(Len(stripe.customers) + 1)
      \* how far the call gets
      customerOk == fail # "createCustomer"
      stripeOk == customerOk /\ fail # "stripeCreateCustomer"
      attachCall == stripeOk /\ paymentMethodId
      paymentMethod == attachCall /\ fail # "attachPaymentMethod"
      contractOk == stripeOk /\ fail # "createContract"
      invoiceCall == contractOk /\ tier # "free" /\ tierConfig.monthlyPrice > 0
      invoiceOk == invoiceCall /\ fail # "createInvoice"
      intentCall == invoiceOk /\ paymentMethod
      intentOk == intentCall /\ fail # "createPaymentIntent"
      payInvoiceOk == intentOk /\ fail # "payInvoice"
      amount == [num |-> TierPrice(tier, billingPeriod), den |-> 1]
      \* the provider after each call
      st1 == IF customerOk
             THEN [storage EXCEPT !.customers =
                     Append(@, [id |-> customerId, entity_id |-> entityId])]
             ELSE storage
      st2 == IF contractOk THEN PostContracts(st1, customerId, tier, billingPeriod, now)
             ELSE st1
      contract == IF contractOk THEN st2.contracts[Len(st2.contracts)] ELSE NoContract
      st3 == IF invoiceOk THEN PostInvoices(st2, customerId, contract.id, amount) ELSE st2
      invoice == IF invoiceOk THEN st3.invoices[Len(st3.invoices)]
                 ELSE NewInvoice(st2, 0, 0, NoAmount)
      st4 == IF payInvoiceOk THEN PostInvoicesPay(st3, invoice.id) ELSE st3
      calls == <<"createCustomer">> \o If(customerOk, "stripeCreateCustomer")
               \o If(attachCall, "attachPaymentMethod") \o If(stripeOk, "createContract")
               \o If(invoiceCall, "createInvoice") \o If(intentCall, "createPaymentIntent")
               \o If(intentOk, "payInvoice")
  IN  /\ Len(storage.customers) < MaxOnboardCustomers
      /\ Len(storage.contracts) < MaxContracts
      /\ storage' = st4
      /\ data' = [data EXCEPT
           !.entities = @ \cup {entityId},
           !.metronomeCustomers =
              IF customerOk THEN Append(@, [id |-> customerId, entity_id |-> entityId])
              ELSE @,
           !.stripeCustomers =
              IF stripeOk THEN Append(@, [id |-> stripeCustomer, entity_id |-> entityId])
              ELSE @,
           !.contracts = IF contractOk THEN saveContract(@, contract) ELSE @,
           !.invoices = IF invoiceOk THEN saveInvoice(@, invoice) ELSE @]
      /\ stripe' = [stripe EXCEPT
           !.customers =
              IF stripeOk THEN Append(@, [id |-> stripeCustomer, entity_id |-> entityId])
              ELSE @,
           !.paymentMethods = IF paymentMethod THEN @ \cup {stripeCustomer} ELSE @,
           !.charges = IF intentOk
                       THEN Append(@, [customer |-> stripeCustomer, amount |-> amount,
                                       kind |-> "payment_intent"])
                       ELSE @]
      /\ last' = IF contractOk
                 THEN [call EXCEPT !.status = "ok", !.calls = calls,
                                   !.resEntityId = entityId, !.contract = contract,
                                   !.failed =
                                      IF attachCall /\ ~paymentMethod
                                      THEN "attachPaymentMethod"
                                      ELSE IF invoiceCall /\ ~invoiceOk
                                      THEN "createInvoice"
                                      ELSE IF intentCall /\ ~intentOk
                                      THEN "createPaymentIntent"
                                      ELSE IF intentOk /\ ~payInvoiceOk
                                      THEN "payInvoice" ELSE "none"]
                 ELSE Thrown(call, "remote_failure", calls)
      /\ UNCHANGED now

(* -------------- TierManagementService.cancelSubscription -------------- *)
cancelSubscription(entityId, fail) ==
  LET call == Call("cancelSubscription", entityId, "none", "none")
      customerId == getMetronomeCustomerByEntityId(data, entityId)
      contract == getActiveContractByCustomerId(data, customerId)
  IN  IF customerId = 0
      THEN /\ last' = Thrown(call, "customer_not_found", <<>>)
           /\ UNCHANGED <<storage, data, stripe, now>>
      ELSE IF contract = NoContract
      THEN /\ last' = Thrown(call, "no_active_contract", <<>>)
           /\ UNCHANGED <<storage, data, stripe, now>>
      ELSE IF fail = "cancelContract"
      THEN /\ last' = Thrown(call, "remote_failure", <<"cancelContract">>)
           /\ UNCHANGED <<storage, data, stripe, now>>
      ELSE /\ storage' = PostContractsCancel(storage, contract.id)
           /\ last' = [call EXCEPT !.status = "ok", !.calls = <<"cancelContract">>,
                                   !.contract = contract]
           /\ UNCHANGED <<data, stripe, now>>

(* ------------ TierManagementService.reactivateSubscription ------------ *)
\* contracts.sort((a, b) => b.created_at - a.created_at)[0]: the sort is
\* stable, so among the contracts created last the first stored one wins
MostRecentContract(contracts) ==
  LET latest == {k \in Indexes(contracts) :
                   \A j \in Indexes(contracts) :
                      contracts[j].created_at <= contracts[k].created_at}
  IN  IF contracts = <<>> THEN NoContract ELSE contracts[FirstIndex(latest)]

\* reactivateSubscription that falls back to the free monthly plan when the
\* customer has no contract
reactivateSubscription_DefaultPlan(entityId, tier, billingPeriod, fail) ==
  LET call == Call("reactivateSubscription", entityId, tier, billingPeriod)
      customerId == getMetronomeCustomerByEntityId(data, entityId)
      found == MostRecentContract(getContractsByCustomerId(data, customerId))
      lastContract == IF found = NoContract
                      THEN [NoContract EXCEPT !.tier = "free",
                                              !.billing_period = "monthly"]
                      ELSE found
      reactivationTier == IF tier = "none" THEN lastContract.tier ELSE tier
      reactivationPeriod == IF billingPeriod = "none" THEN lastContract.billing_period
                            ELSE billingPeriod
  IN  IF customerId = 0
      THEN /\ last' = Thrown(call, "customer_not_found", <<>>)
           /\ UNCHANGED <<storage, data, stripe, now>>
      ELSE IF fail = "createContract" \/ reactivationTier \notin DOMAIN DEFAULT_TIER_CONFIGS
      THEN /\ last' = Thrown(call, "remote_failure", <<"createContract">>)
           /\ UNCHANGED <<storage, data, stripe, now>>
      ELSE /\ Len(storage.contracts) < MaxReactivateContracts
           /\ storage' = PostContracts(storage, customerId, reactivationTier,
                                       reactivationPeriod, now)
           /\ last' = [call EXCEPT !.status = "ok", !.calls = <<"createContract">>,
                         !.contract = storage'.contracts[Len(storage'.contracts)]]
           /\ UNCHANGED <<data, stripe, now>>

reactivateSubscription(entityId, tier, billingPeriod, fail) ==
  LET call == Call("reactivateSubscription", entityId, tier, billingPeriod)
      customerId == getMetronomeCustomerByEntityId(data, entityId)
      lastContract == MostRecentContract(getContractsByCustomerId(data, customerId))
      reactivationTier == IF tier = "none" THEN lastContract.tier ELSE tier
      reactivationPeriod == IF billingPeriod = "none" THEN lastContract.billing_period
                            ELSE billingPeriod
  IN  IF customerId = 0
      THEN /\ last' = Thrown(call, "customer_not_found", <<>>)
           /\ UNCHANGED <<storage, data, stripe, now>>
      ELSE IF lastContract = NoContract
      THEN /\ last' = Thrown(call, "no_contract", <<>>)
           /\ UNCHANGED <<storage, data, stripe, now>>
      ELSE IF fail = "createContract" \/ reactivationTier \notin DOMAIN DEFAULT_TIER_CONFIGS
      THEN /\ last' = Thrown(call, "remote_failure", <<"createContract">>)
           /\ UNCHANGED <<storage, data, stripe, now>>
      ELSE /\ Len(storage.contracts) < MaxReactivateContracts
           /\ storage' = PostContracts(storage, customerId, reactivationTier,
                                       reactivationPeriod, now)
           /\ last' = [call EXCEPT !.status = "ok", !.calls = <<"createContract">>,
                         !.contract = storage'.contracts[Len(storage'.contracts)]]
           /\ UNCHANGED <<data, stripe, now>>

(* ------------- TierManagementService.getSubscriptionStatus ------------ *)
\* the tier getSubscriptionStatus reports, "none" when it returns null
getSubscriptionStatus(entityId) ==
  LET customerId == getMetronomeCustomerByEntityId(data, entityId)
      contract == getActiveContractByCustomerId(data, customerId)
  IN  IF customerId = 0 \/ contract = NoContract
      THEN [tier |-> "none", status |-> "none", creditsBalance |-> 0,
            nextInvoiceDate |-> 0]
      ELSE [tier |-> contract.tier, status |-> contract.status,
            creditsBalance |-> GetCreditsBalance(storage, customerId),
            nextInvoiceDate |-> contract.end_date]

(* ------------------------- caller and clock --------------------------- *)
\* calls are made one at a time: the caller takes the outcome of a call
\* (the route sends the response) before the next call is made
Respond ==
  /\ last # NoCall
  /\ last' = NoCall
  /\ UNCHANGED <<storage, data, stripe, now, webhookVars, retry, inflight, calc>>

Tick ==
  /\ last = NoCall
  /\ now < MaxNow
  /\ now' = now + 1
  /\ UNCHANGED <<storage, data, stripe, last, webhookVars, retry, inflight, calc>>

(* --------------------------- WebhookService --------------------------- *)
\* JsonStorage.saveWebhookEvent: append, keep the last 1000 events
MaxWebhookEvents == 1000

\* saveWebhookEvent that keeps the first 1000 events
saveWebhookEvent_KeepFirst(events, event) ==
  LET pushed == Append(events, event)
  IN  IF Len(pushed) > MaxWebhookEvents
      THEN SubSeq(pushed, 1, MaxWebhookEvents)
      ELSE pushed

saveWebhookEvent(events, event) ==
  LET pushed == Append(events, event)
  IN  IF Len(pushed) > MaxWebhookEvents
      THEN SubSeq(pushed, Len(pushed) - MaxWebhookEvents + 1, Len(pushed))
      ELSE pushed

\* the switch of handleMetronomeEvent / handleStripeEvent: does a per-type
\* handler exist for the event type
HasHandler(provider, type) ==
  IF provider = "metronome" THEN type \in MetronomeWebhookEventType
  ELSE type \in StripeWebhookEventType

\* the call of handleMetronomeEvent / handleStripeEvent by delivery s
Dispatch(s, provider, id, type) ==
  /\ dispatched' = [dispatched EXCEPT ![<<provider, id>>] = @ + 1]
  /\ handlerRuns' = IF HasHandler(provider, type)
                    THEN [handlerRuns EXCEPT ![<<provider, id>>] = @ + 1]
                    ELSE handlerRuns

\* processMetronomeWebhook without the idempotency check
processMetronomeWebhook_NoCheck(s, id, type) ==
  /\ deliveries[s].pc = "idle"
  /\ received < MaxDeliveries
  /\ received' = received + 1
  /\ deliveries' = [deliveries EXCEPT ![s] =
       [pc |-> "saving", provider |-> "metronome", id |-> id, type |-> type,
        result |-> "none", attempts |-> 0]]
  /\ UNCHANGED <<processedEvents, dispatched, completed, handlerRuns, data>>

\* processMetronomeWebhook up to its first await: the idempotency check and
\* the start of saveWebhookEvent
processMetronomeWebhook(s, id, type) ==
  /\ deliveries[s].pc = "idle"
  /\ received < MaxDeliveries
  /\ received' = received + 1
  /\ IF id \in processedEvents
     THEN deliveries' = [deliveries EXCEPT ![s] =
            [pc |-> "done", provider |-> "metronome", id |-> id, type |-> type,
             result |-> "skipped", attempts |-> 0]]
     ELSE deliveries' = [deliveries EXCEPT ![s] =
            [pc |-> "saving", provider |-> "metronome", id |-> id, type |-> type,
             result |-> "none", attempts |-> 0]]
  /\ UNCHANGED <<processedEvents, dispatched, completed, handlerRuns, data>>

\* saveWebhookEvent settles; on success the handler is dispatched
SaveSettles(s, ok) ==
  LET d == deliveries[s]
  IN  /\ d.pc = "saving"
      /\ IF ok
         THEN /\ data' = [data EXCEPT !.webhookEvents =
                            saveWebhookEvent(@, [id |-> d.id, type |-> d.type])]
              /\ Dispatch(s, d.provider, d.id, d.type)
              /\ deliveries' = [deliveries EXCEPT ![s].pc = "handling",
                                                       ![s].attempts = @ + 1]
         ELSE /\ deliveries' = [deliveries EXCEPT ![s].pc = "done",
                                                  ![s].result = "error"]
              /\ UNCHANGED <<data, dispatched, handlerRuns>>
      /\ UNCHANGED <<processedEvents, received, completed>>

\* processStripeWebhook up to its first await: the idempotency check and
\* the dispatch of the handler (Stripe events are not saved)
processStripeWebhook(s, id, type) ==
  /\ deliveries[s].pc = "idle"
  /\ received < MaxDeliveries
  /\ received' = received + 1
  /\ IF id \in processedEvents
     THEN /\ deliveries' = [deliveries EXCEPT ![s] =
               [pc |-> "done", provider |-> "stripe", id |-> id, type |-> type,
                result |-> "skipped", attempts |-> 0]]
          /\ UNCHANGED <<dispatched, handlerRuns>>
     ELSE /\ deliveries' = [deliveries EXCEPT ![s] =
               [pc |-> "handling", provider |-> "stripe", id |-> id, type |-> type,
                result |-> "none", attempts |-> 1]]
          /\ Dispatch(s, "stripe", id, type)
  /\ UNCHANGED <<processedEvents, completed, data>>

\* HandlerSettles with the id marked processed whatever the handler's outcome
HandlerSettles_MarkAlways(s, ok) ==
  LET d == deliveries[s]
  IN  /\ d.pc = "handling"
      /\ ~ok => HasHandler(d.provider, d.type)
      /\ processedEvents' = processedEvents \cup {d.id}
      /\ IF ok
         THEN /\ completed' = [completed EXCEPT ![<<d.provider, d.id>>] = @ + 1]
              /\ deliveries' = [deliveries EXCEPT ![s].pc = "done", ![s].result = "ok"]
         ELSE /\ deliveries' = [deliveries EXCEPT ![s].pc = "done",
                                                  ![s].result = "error"]
              /\ UNCHANGED completed
      /\ UNCHANGED <<received, dispatched, handlerRuns, data>>

\* HandlerSettles with the default branch of the switch throwing
HandlerSettles_UnknownThrows(s, ok) ==
  LET d == deliveries[s]
      done == ok /\ HasHandler(d.provider, d.type)
  IN  /\ d.pc = "handling"
      /\ IF done
         THEN /\ processedEvents' = processedEvents \cup {d.id}
              /\ completed' = [completed EXCEPT ![<<d.provider, d.id>>] = @ + 1]
              /\ deliveries' = [deliveries EXCEPT ![s].pc = "done", ![s].result = "ok"]
         ELSE /\ deliveries' = [deliveries EXCEPT ![s].pc = "done",
                                                  ![s].result = "error"]
              /\ UNCHANGED <<processedEvents, completed>>
      /\ UNCHANGED <<received, dispatched, handlerRuns, data>>

\* the handler settles: on success the id is marked processed, on failure
\* the error is rethrown; a dispatch without handler cannot fail
HandlerSettles(s, ok) ==
  LET d == deliveries[s]
  IN  /\ d.pc = "handling"
      /\ ~ok => HasHandler(d.provider, d.type)
      /\ IF ok
         THEN /\ processedEvents' = processedEvents \cup {d.id}
              /\ completed' = [completed EXCEPT ![<<d.provider, d.id>>] = @ + 1]
              /\ deliveries' = [deliveries EXCEPT ![s].pc = "done", ![s].result = "ok"]
         ELSE /\ deliveries' = [deliveries EXCEPT ![s].pc = "done",
                                                  ![s].result = "error"]
              /\ UNCHANGED <<processedEvents, completed>>
      /\ UNCHANGED <<received, dispatched, handlerRuns, data>>

\* the route answers the delivery (200 or an error status) and the slot is free
Answer(s) ==
  /\ deliveries[s].pc = "done"
  /\ deliveries' = [deliveries EXCEPT ![s] = IdleDelivery]
  /\ UNCHANGED <<processedEvents, received, dispatched, completed, handlerRuns, data>>

\* a new delivery takes the lowest free slot
FreeSlot(s) ==
  /\ deliveries[s].pc = "idle"
  /\ \A r \in Slots : r < s => deliveries[r].pc # "idle"

NoneInFlight == \A s \in Slots : deliveries[s].pc = "idle"

ReceiveMetronome ==
  /\ \E s \in Slots, id \in EventIds, type \in EventTypeInputs :
        FreeSlot(s) /\ processMetronomeWebhook(s, id, type)
  /\ UNCHANGED <<billingVars, retry, inflight, calc>>

ReceiveStripe ==
  /\ \E s \in Slots, id \in EventIds, type \in EventTypeInputs :
        FreeSlot(s) /\ processStripeWebhook(s, id, type)
  /\ UNCHANGED <<billingVars, retry, inflight, calc>>

SaveDone ==
  /\ \E s \in Slots, ok \in BOOLEAN : SaveSettles(s, ok)
  /\ UNCHANGED <<billingVars, retry, inflight, calc>>

HandlerDone ==
  /\ \E s \in Slots, ok \in BOOLEAN : HandlerSettles(s, ok)
  /\ UNCHANGED <<billingVars, retry, inflight, calc>>

AnswerDelivery ==
  /\ \E s \in Slots : Answer(s)
  /\ UNCHANGED <<billingVars, retry, inflight, calc>>

NextWebhook ==
  \/ ReceiveMetronome
  \/ ReceiveStripe
  \/ SaveDone
  \/ HandlerDone
  \/ AnswerDelivery

\* deliveries interleave at their awaits
SpecWebhook == Init /\ [][NextWebhook]_vars

\* deliveries arrive one after the other: none is received while another
\* is in flight
ReceiveMetronomeAlone == NoneInFlight /\ ReceiveMetronome

ReceiveStripeAlone == NoneInFlight /\ ReceiveStripe

NextWebhookSeq ==
  \/ ReceiveMetronomeAlone
  \/ ReceiveStripeAlone
  \/ SaveDone
  \/ HandlerDone
  \/ AnswerDelivery

SpecWebhookSeq == Init /\ [][NextWebhookSeq]_vars

(* ------------------ WebhookService.retryWebhookProcessing ------------- *)
maxRetries == 3

retryDelay == 1000

\* a call retryWebhookProcessing(fn, retries) with an fn that throws on its
\* first `failures` invocations and returns its result afterwards
retryWebhookProcessing(retries, failures) ==
  /\ retry.pc = "idle"
  /\ retry' = [IdleRetry EXCEPT !.pc = "calling", !.budget = retries,
                                !.retries = retries, !.failures = failures]

\* InvokeFn whose catch block rethrows at once, without retrying
InvokeFn_NoRetry ==
  LET k == retry.calls + 1
  IN  /\ retry.pc = "calling"
      /\ IF k <= retry.failures
         THEN retry' = [retry EXCEPT !.calls = k, !.pc = "done",
                          !.result = "error", !.error = k]
         ELSE retry' = [retry EXCEPT !.calls = k, !.pc = "done", !.result = "ok",
                          !.value = k]

\* try { return await fn() } catch: the k-th invocation throws error k
InvokeFn ==
  LET k == retry.calls + 1
  IN  /\ retry.pc = "calling"
      /\ IF k <= retry.failures
         THEN IF retry.retries > 0
              THEN retry' = [retry EXCEPT !.calls = k, !.pc = "delaying",
                               !.delays = Append(@, retryDelay *
                                            (maxRetries - retry.retries + 1))]
              ELSE retry' = [retry EXCEPT !.calls = k, !.pc = "done",
                               !.result = "error", !.error = k]
         ELSE retry' = [retry EXCEPT !.calls = k, !.pc = "done", !.result = "ok",
                          !.value = k]

\* Recurse passing retries on unchanged
Recurse_SameBudget ==
  /\ retry.pc = "delaying"
  /\ retry' = [retry EXCEPT !.pc = "calling"]

\* the delay elapses: return this.retryWebhookProcessing(fn, retries - 1)
Recurse ==
  /\ retry.pc = "delaying"
  /\ retry' = [retry EXCEPT !.pc = "calling", !.retries = @ - 1]

\* the caller takes the outcome
RetryReturns ==
  /\ retry.pc = "done"
  /\ retry' = IdleRetry

RetryStart ==
  /\ \E retries \in 0..MaxRetryBudget, failures \in 0..MaxFailures :
        retryWebhookProcessing(retries, failures)
  /\ UNCHANGED <<billingVars, data, webhookVars, inflight, calc>>

RetryInvoke == InvokeFn /\ UNCHANGED <<billingVars, data, webhookVars, inflight, calc>>

RetryWake == Recurse /\ UNCHANGED <<billingVars, data, webhookVars, inflight, calc>>

RetryDone == RetryReturns /\ UNCHANGED <<billingVars, data, webhookVars, inflight, calc>>

NextRetry == RetryStart \/ RetryInvoke \/ RetryWake \/ RetryDone

\* the event loop runs every continuation that is ready: a pending
\* invocation is made and an elapsed timer fires
SpecRetry ==
  Init /\ [][NextRetry]_vars /\ WF_vars(RetryInvoke) /\ WF_vars(RetryWake)

(* ------------- changeTier, one step per awaited operation ------------- *)
\* the request of caller c ends: the promise is rejected or resolved
Rejects(c, error) ==
  inflight' = [inflight EXCEPT ![c].pc = "done", ![c].result = "error",
                               ![c].error = error]

Resolves(c) ==
  inflight' = [inflight EXCEPT ![c].pc = "done", ![c].result = "ok"]

Goes(c, pc) == inflight' = [inflight EXCEPT ![c].pc = pc]

\* where changeTier continues after the credit adjustment, and after the payment
AfterPayment(r) == IF r.proratedAmount.num # 0 THEN "createInvoice" ELSE "return"

AfterCredit(r) ==
  IF r.proratedAmount.num > 0 THEN "getStripeCustomer" ELSE AfterPayment(r)

\* either the request continues at pc or, with nothing left to do, resolves
Continues(c, pc) == IF pc = "return" THEN Resolves(c) ELSE Goes(c, pc)

\* a request arrives
changeTierBegin(c, entityId, newTier, billingPeriod) ==
  /\ inflight[c].pc = "idle"
  /\ \A b \in Callers : b < c => inflight[b].pc # "idle"
  /\ inflight' = [inflight EXCEPT ![c] =
       [IdleChange EXCEPT !.pc = "getCustomer", !.entityId = entityId,
                          !.newTier = newTier, !.billingPeriod = billingPeriod]]
  /\ UNCHANGED <<storage, data, stripe>>

\* await this.storage.getMetronomeCustomerByEntityId(entityId)
changeTierGetCustomer(c) ==
  LET r == inflight[c]
      customerId == getMetronomeCustomerByEntityId(data, r.entityId)
  IN  /\ r.pc = "getCustomer"
      /\ IF customerId = 0 THEN Rejects(c, "customer_not_found")
         ELSE inflight' = [inflight EXCEPT ![c].pc = "getContract",
                                           ![c].customerId = customerId]
      /\ UNCHANGED <<storage, data, stripe>>

\* await this.storage.getActiveContractByCustomerId, the checks and the
\* proration that follow it
changeTierGetContract(c) ==
  LET r == inflight[c]
      currentContract == getActiveContractByCustomerId(data, r.customerId)
      period == IF r.billingPeriod = "none" THEN currentContract.billing_period
                ELSE r.billingPeriod
  IN  /\ r.pc = "getContract"
      /\ IF currentContract = NoContract THEN Rejects(c, "no_active_contract")
         ELSE IF r.newTier \notin DOMAIN DEFAULT_TIER_CONFIGS
         THEN Rejects(c, "invalid_tier")
         ELSE IF currentContract.tier = r.newTier
         THEN IF currentContract.billing_period # r.billingPeriod
              THEN inflight' = [inflight EXCEPT ![c].pc = "updateContract",
                                                ![c].currentContract = currentContract]
              ELSE Rejects(c, "already_on_tier")
         ELSE inflight' = [inflight EXCEPT
                 ![c].pc = "cancelContract",
                 ![c].currentContract = currentContract,
                 ![c].billingPeriod = period,
                 ![c].proratedAmount =
                    calculateProratedAmount(currentContract.start_date,
                       currentContract.end_date, now, currentContract.tier,
                       r.newTier, period)]
      /\ UNCHANGED <<storage, data, stripe>>

\* updateBillingPeriod: await this.metronomeClient.updateContract
changeTierUpdateContract(c, ok) ==
  LET r == inflight[c]
      st == PatchContracts(storage, r.currentContract.id, r.billingPeriod)
  IN  /\ r.pc = "updateContract"
      /\ IF ok
         THEN /\ storage' = st
              /\ inflight' = [inflight EXCEPT ![c].pc = "saveUpdated",
                                ![c].newContract = st.contracts[r.currentContract.id]]
         ELSE /\ Rejects(c, "remote_failure")
              /\ UNCHANGED storage
      /\ UNCHANGED <<data, stripe>>

\* updateBillingPeriod: await this.storage.saveContract(updated)
changeTierSaveUpdated(c) ==
  /\ inflight[c].pc = "saveUpdated"
  /\ data' = [data EXCEPT !.contracts = saveContract(@, inflight[c].newContract)]
  /\ Resolves(c)
  /\ UNCHANGED <<storage, stripe>>

\* await this.metronomeClient.cancelContract(currentContract.id)
changeTierCancelContract(c, ok) ==
  /\ inflight[c].pc = "cancelContract"
  /\ IF ok
     THEN /\ storage' = PostContractsCancel(storage, inflight[c].currentContract.id)
          /\ Goes(c, "createContract")
     ELSE /\ Rejects(c, "remote_failure")
          /\ UNCHANGED storage
  /\ UNCHANGED <<data, stripe>>

\* await this.metronomeClient.createContract
changeTierCreateContract(c, ok) ==
  LET r == inflight[c]
      st == PostContracts(storage, r.customerId, r.newTier, r.billingPeriod, now)
  IN  /\ r.pc = "createContract"
      /\ IF ok
         THEN /\ Len(storage.contracts) < MaxRaceContracts
              /\ storage' = st
              /\ inflight' = [inflight EXCEPT ![c].pc = "saveContract",
                                ![c].newContract = st.contracts[Len(st.contracts)]]
         ELSE /\ Rejects(c, "remote_failure")
              /\ UNCHANGED storage
      /\ UNCHANGED <<data, stripe>>

\* await this.storage.saveContract(newContract)
changeTierSaveContract(c) ==
  LET r == inflight[c]
      creditDifference ==
         DEFAULT_TIER_CONFIGS[r.newTier].monthlyCredits
         - DEFAULT_TIER_CONFIGS[r.currentContract.tier].monthlyCredits
  IN  /\ r.pc = "saveContract"
      /\ data' = [data EXCEPT !.contracts = saveContract(@, r.newContract)]
      /\ Continues(c, IF creditDifference # 0 THEN "applyCredit" ELSE AfterCredit(r))
      /\ UNCHANGED <<storage, stripe>>

\* adjustCreditsForTierChange: await this.metronomeClient.applyCredit
changeTierApplyCredit(c, ok) ==
  LET r == inflight[c]
      creditDifference ==
         DEFAULT_TIER_CONFIGS[r.newTier].monthlyCredits
         - DEFAULT_TIER_CONFIGS[r.currentContract.tier].monthlyCredits
  IN  /\ r.pc = "applyCredit"
      /\ IF ok
         THEN /\ storage' = PostCredits(storage, r.customerId, creditDifference)
              /\ Continues(c, AfterCredit(r))
         ELSE /\ Rejects(c, "remote_failure")
              /\ UNCHANGED storage
      /\ UNCHANGED <<data, stripe>>

\* processTierChangePayment: await this.storage.getStripeCustomerByEntityId
changeTierGetStripeCustomer(c) ==
  LET r == inflight[c]
      stripeCustomer == getStripeCustomerByEntityId(data, r.entityId)
  IN  /\ r.pc = "getStripeCustomer"
      /\ IF stripeCustomer = 0 THEN Rejects(c, "stripe_customer_not_found")
         ELSE inflight' = [inflight EXCEPT ![c].pc = "listPaymentMethods",
                                           ![c].stripeCustomer = stripeCustomer]
      /\ UNCHANGED <<storage, data, stripe>>

\* processTierChangePayment: await this.stripeClient.listPaymentMethods
changeTierListPaymentMethods(c, ok) ==
  LET r == inflight[c]
  IN  /\ r.pc = "listPaymentMethods"
      /\ IF ~ok THEN Rejects(c, "remote_failure")
         ELSE IF r.stripeCustomer \in stripe.paymentMethods
         THEN Goes(c, "createCharge")
         ELSE Continues(c, AfterPayment(r))
      /\ UNCHANGED <<storage, data, stripe>>

\* processTierChangePayment: await this.stripeClient.createCharge
changeTierCreateCharge(c, ok) ==
  LET r == inflight[c]
  IN  /\ r.pc = "createCharge"
      /\ IF ok
         THEN /\ stripe' = [stripe EXCEPT !.charges =
                   Append(@, [customer |-> r.stripeCustomer,
                              amount |-> r.proratedAmount, kind |-> "charge"])]
              /\ Continues(c, AfterPayment(r))
         ELSE /\ Rejects(c, "payment_failed")
              /\ UNCHANGED stripe
      /\ UNCHANGED <<storage, data>>

\* await this.metronomeClient.createInvoice, inside try / catch
changeTierCreateInvoice(c, ok) ==
  LET r == inflight[c]
      st == PostInvoices(storage, r.customerId, r.newContract.id,
                         AbsAmount(r.proratedAmount))
  IN  /\ r.pc = "createInvoice"
      /\ IF ok
         THEN /\ storage' = st
              /\ inflight' = [inflight EXCEPT ![c].pc = "saveInvoice",
                                              ![c].invoice = Len(st.invoices)]
         ELSE /\ Resolves(c)
              /\ UNCHANGED storage
      /\ UNCHANGED <<data, stripe>>

\* await this.storage.saveInvoice(invoice), inside try / catch; the invoice
\* saved is the answer of createInvoice
changeTierSaveInvoice(c) ==
  LET r == inflight[c]
      invoice == [storage.invoices[r.invoice] EXCEPT !.status = "open"]
  IN  /\ r.pc = "saveInvoice"
      /\ data' = [data EXCEPT !.invoices = saveInvoice(@, invoice)]
      /\ Continues(c, IF r.proratedAmount.num < 0 THEN "payInvoice" ELSE "return")
      /\ UNCHANGED <<storage, stripe>>

\* await this.metronomeClient.payInvoice(invoice.id), inside try / catch
changeTierPayInvoice(c, ok) ==
  /\ inflight[c].pc = "payInvoice"
  /\ storage' = IF ok THEN PostInvoicesPay(storage, inflight[c].invoice) ELSE storage
  /\ Resolves(c)
  /\ UNCHANGED <<data, stripe>>

\* the route answers and the request is over; a caller makes one request
changeTierReturn(c) ==
  /\ inflight[c].pc = "done"
  /\ inflight' = [inflight EXCEPT ![c].pc = "returned"]
  /\ UNCHANGED <<storage, data, stripe>>

\* tiers and periods offered to the interleaved requests
RaceTiers == {"free", "pro"}

RacePeriods == {"none", "yearly"}

raceFrame == <<now, webhookVars, retry, calc>>

\* a customer is onboarded before the requests arrive
RaceOnboard ==
  /\ last = NoCall
  /\ Len(storage.customers) < MaxCustomers
  /\ \A c \in Callers : inflight[c].pc = "idle"
  /\ \E e \in EntityIds, t \in RaceTiers, pm \in BOOLEAN :
        onboardCustomer(e, t, "monthly", pm, "none")
  /\ UNCHANGED <<webhookVars, retry, inflight, calc>>

RaceBegin ==
  /\ last = NoCall
  /\ \E c \in Callers, e \in EntityIds, t \in RaceTiers, p \in RacePeriods :
        changeTierBegin(c, e, t, p)
  /\ UNCHANGED <<last, raceFrame>>

RaceRead ==
  /\ \E c \in Callers :
        \/ changeTierGetCustomer(c)
        \/ changeTierGetContract(c)
        \/ changeTierGetStripeCustomer(c)
  /\ UNCHANGED <<last, raceFrame>>

RaceContract ==
  /\ \E c \in Callers, ok \in BOOLEAN :
        \/ changeTierCancelContract(c, ok)
        \/ changeTierCreateContract(c, ok)
        \/ changeTierUpdateContract(c, ok)
  /\ UNCHANGED <<last, raceFrame>>

RaceSave ==
  /\ \E c \in Callers :
        \/ changeTierSaveContract(c)
        \/ changeTierSaveUpdated(c)
        \/ changeTierSaveInvoice(c)
  /\ UNCHANGED <<last, raceFrame>>

RaceBilling ==
  /\ \E c \in Callers, ok \in BOOLEAN :
        \/ changeTierApplyCredit(c, ok)
        \/ changeTierListPaymentMethods(c, ok)
        \/ changeTierCreateCharge(c, ok)
        \/ changeTierCreateInvoice(c, ok)
        \/ changeTierPayInvoice(c, ok)
  /\ UNCHANGED <<last, raceFrame>>

RaceReturn ==
  /\ \E c \in Callers : changeTierReturn(c)
  /\ UNCHANGED <<last, raceFrame>>

NextRace ==
  \/ RaceOnboard
  \/ Respond
  \/ RaceBegin
  \/ RaceRead
  \/ RaceContract
  \/ RaceSave
  \/ RaceBilling
  \/ RaceReturn

\* changeTier requests interleave at their awaits
SpecRace == Init /\ [][NextRace]_vars

(* ------------------- calculateProratedAmount alone -------------------- *)
\* calculateProratedAmount64 with the reference price always the monthly one
calculateProratedAmount64_MonthlyOld(start_date, end_date, t, oldTier, newTier, billingPeriod) ==
  LET oldPrice == DEFAULT_TIER_CONFIGS[oldTier].monthlyPrice
      newPrice == TierPrice(newTier, billingPeriod)
      totalDays == Ceil(end_date - start_date, MsPerDay)
      remainingDays == Ceil(end_date - t, MsPerDay)
      proratedOldPrice == Mul64(Div64(oldPrice, totalDays), remainingDays)
      proratedNewPrice == Mul64(Div64(newPrice, totalDays), remainingDays)
  IN  IF t >= end_date THEN FromInt64(newPrice - oldPrice)
      ELSE Sub64(proratedNewPrice, proratedOldPrice)

\* calculateProratedAmount64 that takes the period to have ended only after
\* the end date
calculateProratedAmount64_StrictlyAfter(start_date, end_date, t, oldTier, newTier, billingPeriod) ==
  LET oldPrice == TierPrice(oldTier, billingPeriod)
      newPrice == TierPrice(newTier, billingPeriod)
      totalDays == Ceil(end_date - start_date, MsPerDay)
      remainingDays == Ceil(end_date - t, MsPerDay)
      proratedOldPrice == Mul64(Div64(oldPrice, totalDays), remainingDays)
      proratedNewPrice == Mul64(Div64(newPrice, totalDays), remainingDays)
  IN  IF t > end_date THEN FromInt64(newPrice - oldPrice)
      ELSE Sub64(proratedNewPrice, proratedOldPrice)

\* calculateProratedAmount as the code computes it, in binary64
calculateProratedAmount64(start_date, end_date, t, oldTier, newTier, billingPeriod) ==
  LET oldPrice == TierPrice(oldTier, billingPeriod)
      newPrice == TierPrice(newTier, billingPeriod)
      totalDays == Ceil(end_date - start_date, MsPerDay)
      remainingDays == Ceil(end_date - t, MsPerDay)
      proratedOldPrice == Mul64(Div64(oldPrice, totalDays), remainingDays)
      proratedNewPrice == Mul64(Div64(newPrice, totalDays), remainingDays)
  IN  IF t >= end_date THEN FromInt64(newPrice - oldPrice)
      ELSE Sub64(proratedNewPrice, proratedOldPrice)

proratedFrame == <<storage, data, stripe, now, last, webhookVars, retry, inflight>>

\* the function is applied to the inputs
Prorate ==
  /\ calc.pc = "input"
  /\ calc' = [calc EXCEPT !.pc = "prorated",
                !.amount = calculateProratedAmount64(calc.start_date, calc.end_date,
                              calc.t, calc.oldTier, calc.newTier, calc.billingPeriod)]
  /\ UNCHANGED proratedFrame

\* the function is applied to the reverse transition at the same instant
ProrateReverse ==
  /\ calc.pc = "prorated"
  /\ calc' = [calc EXCEPT !.pc = "reversed",
                !.reverse = calculateProratedAmount64(calc.start_date, calc.end_date,
                               calc.t, calc.newTier, calc.oldTier, calc.billingPeriod)]
  /\ UNCHANGED proratedFrame

\* the instants run from the contract's start to just after its end
InitProration ==
  /\ InitService
  /\ \E d \in PeriodDays, a \in BillingTier, b \in BillingTier, p \in BillingPeriods :
       \E t \in 0..(d * MsPerDay + 1) : calc = CalcInput(d, t, a, b, p)

NextProration == Prorate \/ ProrateReverse

SpecProration == InitProration /\ [][NextProration]_vars

(* ----------------------- the credit ledger alone ---------------------- *)
\* customers and amounts offered to POST /api/v1/credits; the endpoint does
\* not look the customer up
CreditCustomers == {CustId(1), CustId(2)}

CreditAmounts == {10000, 0 - 5000}

\* POST /api/v1/credits, called on the provider directly
ApplyCredit ==
  /\ Len(storage.credits) < MaxCredits
  /\ \E c \in CreditCustomers, a \in CreditAmounts : storage' = PostCredits(storage, c, a)
  /\ UNCHANGED <<data, stripe, now, last, webhookVars, retry, inflight, calc>>

NextCredits == ApplyCredit

SpecCredits == Init /\ [][NextCredits]_vars

(* ------------------- cancellation and reactivation -------------------- *)
\* one customer is onboarded on the free tier, with or without its first
\* contract, and the subscription is then cancelled and reactivated
ReactivateOnboard ==
  /\ last = NoCall
  /\ Len(storage.customers) < MaxCustomers
  /\ \E e \in EntityIds, f \in {"none", "createContract"} :
        onboardCustomer(e, "free", "monthly", FALSE, f)
  /\ UNCHANGED <<webhookVars, retry, inflight, calc>>

ReactivateCancel ==
  /\ last = NoCall
  /\ \E e \in EntityIds : cancelSubscription(e, "none")
  /\ UNCHANGED <<webhookVars, retry, inflight, calc>>

ReactivateCall ==
  /\ last = NoCall
  /\ \E e \in EntityIds, t \in {"pro", "none"}, p \in {"yearly", "none"},
        f \in {"none", "createContract"} : reactivateSubscription(e, t, p, f)
  /\ UNCHANGED <<webhookVars, retry, inflight, calc>>

NextReactivate ==
  \/ ReactivateOnboard
  \/ ReactivateCancel
  \/ ReactivateCall
  \/ Respond
  \/ Tick

SpecReactivate == Init /\ [][NextReactivate]_vars

(* ------------------------- onboarding alone --------------------------- *)
\* onboardCustomer is called again and again, also for an entity that is
\* already onboarded
OnboardAgain ==
  /\ last = NoCall
  /\ \E e \in EntityIds, t \in {"free", "pro"}, pm \in BOOLEAN, f \in OnboardFailures :
        onboardCustomer(e, t, "monthly", pm, f)
  /\ UNCHANGED <<webhookVars, retry, inflight, calc>>

NextOnboard ==
  \/ OnboardAgain
  \/ Respond

SpecOnboard == Init /\ [][NextOnboard]_vars

(* ------------------------ the event log alone ------------------------- *)
\* saveWebhookEvent is called with one event after the other; the events
\* are numbered in their order of arrival, received counting them
AppendEvent ==
  /\ received < MaxAppended
  /\ received' = received + 1
  /\ data' = [data EXCEPT !.webhookEvents =
                saveWebhookEvent(@, [id |-> received + 1, type |-> "customer.created"])]
  /\ UNCHANGED <<billingVars, processedEvents, deliveries, dispatched, completed,
                 handlerRuns, retry, inflight, calc>>

NextEventLog == AppendEvent

SpecEventLog == Init /\ [][NextEventLog]_vars

(* --------------------------- specification ---------------------------- *)
\* inputs offered to the calls
OnboardTiers == {"free", "pro"}

TierInputs == {"free", "pro", "enterprise", "bogus"}

PeriodInputs == BillingPeriods \cup {"none"}

ReactivateTiers == {"pro", "none"}

ReactivatePeriods == {"yearly", "none"}

Onboard ==
  /\ last = NoCall
  /\ Len(storage.customers) < MaxCustomers
  /\ \E e \in EntityIds, t \in OnboardTiers, p \in BillingPeriods, pm \in BOOLEAN,
        f \in OnboardFailures : onboardCustomer(e, t, p, pm, f)
  /\ UNCHANGED <<webhookVars, retry, inflight, calc>>

ChangeTier ==
  /\ last = NoCall
  /\ \E e \in EntityIds, t \in TierInputs, p \in PeriodInputs,
        f \in ChangeTierFailures : changeTier(e, t, p, f)
  /\ UNCHANGED <<webhookVars, retry, inflight, calc>>

CancelSubscription ==
  /\ last = NoCall
  /\ \E e \in EntityIds, f \in {"none", "cancelContract"} : cancelSubscription(e, f)
  /\ UNCHANGED <<webhookVars, retry, inflight, calc>>

ReactivateSubscription ==
  /\ last = NoCall
  /\ \E e \in EntityIds, t \in ReactivateTiers, p \in ReactivatePeriods,
        f \in {"none", "createContract"} : reactivateSubscription(e, t, p, f)
  /\ Len(storage'.contracts) <= MaxContracts
  /\ UNCHANGED <<webhookVars, retry, inflight, calc>>

Next ==
  \/ Onboard
  \/ ChangeTier
  \/ CancelSubscription
  \/ ReactivateSubscription
  \/ Respond
  \/ Tick

Spec == Init /\ [][Next]_vars

(* ============================== claims ================================ *)
ActiveContracts(customerId) ==
  {i \in Indexes(storage.contracts) :
     /\ storage.contracts[i].customer_id = customerId
     /\ storage.contracts[i].status = "active"}

CustomerIds == {storage.customers[i].id : i \in Indexes(storage.customers)}

\* C1: after any sequence of onboardCustomer, changeTier, cancelSubscription
\* and reactivateSubscription calls made one at a time, the provider holds at
\* most one active contract per customer.
C1_AtMostOneActiveContract ==
  \A c \in CustomerIds : Cardinality(ActiveContracts(c)) <= 1

\* per event id, over both providers
DispatchedFor(id) == dispatched[<<"metronome", id>>] + dispatched[<<"stripe", id>>]

CompletedFor(id) == completed[<<"metronome", id>>] + completed[<<"stripe", id>>]

\* C2: with deliveries made one after the other, once a delivery of an event
\* id has succeeded its handler has been dispatched successfully exactly once,
\* no later delivery of that id dispatches it again, and a later delivery of
\* that id returns normally (skipped) at once.
C2_Step ==
  \A id \in EventIds :
    /\ id \in processedEvents' => CompletedFor(id)' = 1
    /\ id \in processedEvents =>
         /\ DispatchedFor(id)' = DispatchedFor(id)
         /\ \A s \in Slots :
              (deliveries[s].pc = "idle" /\ deliveries'[s].id = id) =>
                 (deliveries'[s].pc = "done" /\ deliveries'[s].result = "skipped")

C2_DuplicateSkipped == [][C2_Step]_vars

\* a second delivery of a processed id has returned as skipped, and the id
\* was dispatched once
C2_Witness ==
  \E s \in Slots :
    /\ deliveries[s].result = "skipped"
    /\ deliveries[s].id \in processedEvents
    /\ DispatchedFor(deliveries[s].id) = 1

\* C3: when deliveries of the same event id interleave, the handler for
\* that event id is dispatched (with success) at most once.
C3_AtMostOnceConcurrent ==
  \A k \in Providers, id \in EventIds : completed[<<k, id>>] <= 1

\* C4: a delivery whose save or handler fails ends in error and leaves the
\* processed set alone; a delivery of an id that is not in the processed set
\* is processed (saved or dispatched), not skipped; an id is in the processed
\* set only if a dispatch for it succeeded.
C4_Step ==
  /\ \A id \in processedEvents' : CompletedFor(id)' >= 1
  /\ \A s \in Slots :
       /\ (deliveries[s].result # "error" /\ deliveries'[s].result = "error") =>
            /\ processedEvents' = processedEvents
            /\ deliveries'[s].pc = "done"
            /\ deliveries[s].pc \in {"saving", "handling"}
       /\ (deliveries[s].pc = "saving" /\ deliveries'[s].pc = "handling") =>
            DispatchedFor(deliveries[s].id)' = DispatchedFor(deliveries[s].id) + 1
       /\ \A id \in EventIds \ processedEvents :
            (deliveries[s].pc = "idle" /\ deliveries'[s].id = id) =>
               /\ deliveries'[s].result = "none"
               /\ IF deliveries'[s].provider = "metronome"
                  THEN deliveries'[s].pc = "saving"
                  ELSE /\ deliveries'[s].pc = "handling"
                       /\ DispatchedFor(id)' = DispatchedFor(id) + 1

C4_FailureNotMarked == [][C4_Step]_vars

\* a delivery has failed in its second dispatch, and its id is not processed
C4_Witness ==
  \E s \in Slots :
    /\ deliveries[s].result = "error"
    /\ deliveries[s].id \notin processedEvents
    /\ dispatched[<<deliveries[s].provider, deliveries[s].id>>] = 2

\* C5: an fn that fails on its first two invocations and succeeds on the
\* third, retried with a budget of 3, makes the helper return the result of
\* the third invocation after exactly 3 invocations.
C5_FailTwiceThenSucceed ==
  (retry.budget = 3 /\ retry.failures = 2) =>
     /\ retry.calls <= 3
     /\ retry.pc = "done" =>
          (retry.result = "ok" /\ retry.value = 3 /\ retry.calls = 3)

C5_Witness ==
  /\ retry.pc = "done"
  /\ retry.budget = 3
  /\ retry.failures = 2
  /\ retry.result = "ok"
  /\ retry.delays = <<retryDelay, retryDelay * 2>>

\* fn fails on every invocation the helper can make with its budget
AlwaysFails == retry.failures > retry.budget

\* C6 as stated: with the default budget and an fn that always fails, the
\* helper ends in error after at most 3 invocations.
C6_AtMostThreeInvocations ==
  (retry.pc # "idle" /\ retry.budget = maxRetries /\ AlwaysFails) =>
     /\ retry.calls <= 3
     /\ retry.pc = "done" => retry.result = "error"

\* C6 as amended: with the default budget (maxRetries = 3) and an fn that
\* always fails, the helper terminates, throwing the error of the last
\* invocation, after maxRetries + 1 = 4 invocations.
C6_Bound ==
  (retry.pc # "idle" /\ retry.budget = maxRetries /\ AlwaysFails) =>
     /\ retry.calls <= maxRetries + 1
     /\ retry.pc = "done" =>
          (retry.result = "error" /\ retry.error = retry.calls
           /\ retry.calls = maxRetries + 1)

C6_InitialAttemptPlusRetries ==
  /\ []C6_Bound
  /\ (retry.pc = "calling" /\ retry.budget = maxRetries /\ AlwaysFails)
        ~> (retry.pc = "done")

C6_Witness ==
  /\ retry.pc = "done"
  /\ retry.budget = maxRetries
  /\ AlwaysFails
  /\ retry.result = "error"
  /\ retry.calls = 4

\* C7: a failure of the payment charge, or a missing payment-provider
\* customer, during an upgrade changeTier does not fail changeTier.
C7_PaymentFailureSwallowed ==
  (last.op = "changeTier"
   /\ last.error \in {"payment_failed", "stripe_customer_not_found"}) =>
     last.status = "ok"

\* C8: after a successful changeTier from tier A to a different tier B,
\* getSubscriptionStatus for the entity reports tier B.
C8_StatusReportsNewTier ==
  (last.op = "changeTier" /\ last.status = "ok" /\ last.oldTier # last.newTier) =>
     getSubscriptionStatus(last.entityId).tier = last.newTier

\* the contract changeTier finds current for the entity of the call being made
CurrentContract(entityId) ==
  getActiveContractByCustomerId(data, getMetronomeCustomerByEntityId(data, entityId))

\* a step that makes a changeTier call
ChangeTierStep == last = NoCall /\ last'.op = "changeTier"

\* C9: changeTier with newTier equal to the current tier and the billing
\* period equal to the current one throws already-on-tier, makes no provider
\* call and changes neither provider nor stored state.
C9_Step ==
  LET cur == CurrentContract(last'.entityId)
  IN  (ChangeTierStep /\ cur # NoContract /\ last'.tier = cur.tier
       /\ last'.billingPeriod = cur.billing_period) =>
        /\ last'.status = "error"
        /\ last'.error = "already_on_tier"
        /\ last'.calls = <<>>
        /\ UNCHANGED <<storage, data, stripe>>

C10_Step ==
  LET cur == CurrentContract(last'.entityId)
  IN  (ChangeTierStep /\ cur # NoContract /\ last'.tier = cur.tier
       /\ last'.billingPeriod # cur.billing_period) =>
        /\ last'.calls = <<"updateContract">>
        /\ ~last'.hasProrated
        /\ storage'.credits = storage.credits
        /\ storage'.invoices = storage.invoices
        /\ storage'.customers = storage.customers
        /\ stripe' = stripe
        /\ data'.invoices = data.invoices
        /\ Len(data'.contracts) = Len(data.contracts)
        /\ Len(storage'.contracts) = Len(storage.contracts)
        /\ \A i \in Indexes(storage.contracts) :
             /\ storage'.contracts[i].status = storage.contracts[i].status
             /\ storage'.contracts[i].tier = storage.contracts[i].tier
             /\ i # cur.id => storage'.contracts[i] = storage.contracts[i]
        /\ last'.status = "error" => UNCHANGED <<storage, data>>
        /\ last'.status = "ok" =>
             /\ last'.contract.id = cur.id
             /\ last'.contract.tier = cur.tier
             /\ last'.billingPeriod \in BillingPeriods =>
                  /\ last'.contract.billing_period = last'.billingPeriod
                  /\ storage'.contracts[cur.id].billing_period = last'.billingPeriod
             /\ \E k \in Indexes(data'.contracts) :
                  /\ data.contracts[k].id = cur.id
                  /\ data'.contracts[k] = storage'.contracts[cur.id]

Swaps(entityId, newTier) ==
  /\ CurrentContract(entityId) # NoContract
  /\ newTier \in BillingTier
  /\ newTier # CurrentContract(entityId).tier

\* the prorated delta changeTier computes for these inputs
Delta(entityId, newTier, billingPeriod) ==
  LET cur == CurrentContract(entityId)
  IN  calculateProratedAmount(cur.start_date, cur.end_date, now, cur.tier, newTier,
        IF billingPeriod = "none" THEN cur.billing_period ELSE billingPeriod)

\* the invoice a step has created at the provider, if it created one
InvoiceCreated == Len(storage'.invoices) = Len(storage.invoices) + 1

\* C11: changeTier fails with an explicit error when the entity has no
\* customer, when the store holds no active contract for the customer, or
\* when newTier is not a catalog tier; it then makes no provider call and
\* changes no provider or stored state.
C11_Step ==
  LET customerId == getMetronomeCustomerByEntityId(data, last'.entityId)
      cur == CurrentContract(last'.entityId)
  IN  (ChangeTierStep
       /\ (customerId = 0 \/ cur = NoContract \/ last'.tier \notin BillingTier)) =>
        /\ last'.status = "error"
        /\ last'.error = IF customerId = 0 THEN "customer_not_found"
                         ELSE IF cur = NoContract THEN "no_active_contract"
                         ELSE "invalid_tier"
        /\ last'.calls = <<>>
        /\ UNCHANGED <<storage, data, stripe>>

SwapStep == ChangeTierStep /\ Swaps(last'.entityId, last'.tier)

\* the prorated delta of the changeTier call a step makes
StepDelta == Delta(last'.entityId, last'.tier, last'.billingPeriod)

\* C12: when cancelContract fails during changeTier the call fails after
\* that single provider call: no contract is created, no credit applied, no
\* charge or invoice made, and provider, store and payment provider are as
\* before.
C12_Step ==
  (SwapStep /\ last'.failed = "cancelContract") =>
     /\ last'.status = "error"
     /\ last'.calls = <<"cancelContract">>
     /\ UNCHANGED <<storage, data, stripe>>

C12_CancelFailureAborts == [][C12_Step]_vars

C12_Witness ==
  /\ last.op = "changeTier"
  /\ last.status = "error"
  /\ last.failed = "cancelContract"
  /\ CurrentContract(last.entityId).status = "active"
  /\ storage.contracts[CurrentContract(last.entityId).id].status = "active"

\* C13: when createContract fails after the old contract was cancelled,
\* changeTier fails and the customer has no active contract at the provider.
C13_Step ==
  (SwapStep /\ last'.failed = "createContract") =>
     /\ last'.status = "error"
     /\ \A i \in Indexes(storage'.contracts) :
          storage'.contracts[i].customer_id
             = CurrentContract(last'.entityId).customer_id =>
                storage'.contracts[i].status # "active"

C13_NoActiveContractLeft == [][C13_Step]_vars

\* a request that has arrived and has not been answered
InFlight(c) == inflight[c].pc \notin {"idle", "returned"}

\* C14: while two changeTier requests for the same entity are in flight
\* together, their steps interleaving, the customer never has more than
\* one active contract at the provider.
C14_OneActiveContractInRace ==
  (\A c \in Callers : InFlight(c) /\ inflight[c].entityId = inflight[1].entityId) =>
     \A customerId \in CustomerIds : Cardinality(ActiveContracts(customerId)) <= 1

\* C15: changeTier creates an invoice if and only if the prorated delta is
\* not zero (whatever the outcome of the payment), and the amount of the
\* invoice and of its single line item is abs(delta), never negative.
C15_Step ==
  (SwapStep /\ last'.failed \in {"none", "listPaymentMethods", "createCharge",
                                 "payInvoice"}) =>
     /\ InvoiceCreated <=> StepDelta.num # 0
     /\ InvoiceCreated =>
          LET invoice == storage'.invoices[Len(storage'.invoices)]
          IN  /\ invoice.amount = AbsAmount(StepDelta)
              /\ invoice.line_items = <<AbsAmount(StepDelta)>>
              /\ invoice.amount.num >= 0
     /\ ~InvoiceCreated => storage'.invoices = storage.invoices

C15_InvoiceIffDelta == [][C15_Step]_vars

\* C16: when the delta is negative, the invoice changeTier creates is paid at
\* the provider when changeTier returns; only a failure of the payInvoice
\* call itself leaves it open.
C16_Step ==
  (SwapStep /\ StepDelta.num < 0 /\ InvoiceCreated) =>
     LET invoice == storage'.invoices[Len(storage'.invoices)]
         n == Len(last'.calls)
     IN  /\ last'.status = "ok"
         /\ n >= 2
         /\ last'.calls[n - 1] = "createInvoice"
         /\ last'.calls[n] = "payInvoice"
         /\ invoice.contract_id = last'.contract.id
         /\ invoice.status = IF last'.failed = "payInvoice" THEN "open" ELSE "paid"

C16_DowngradeInvoicePaid == [][C16_Step]_vars

C16_Witness ==
  /\ last.op = "changeTier"
  /\ last.status = "ok"
  /\ last.failed = "none"
  /\ last.proratedAmount.num < 0
  /\ storage.invoices # <<>>
  /\ storage.invoices[Len(storage.invoices)].contract_id = last.contract.id
  /\ storage.invoices[Len(storage.invoices)].status = "paid"

\* C17: after an upgrade (delta > 0) in which no remote call fails, the
\* invoice created for the change is paid when the customer has a payment
\* method and open when the customer has none.
C17_Step ==
  (SwapStep /\ last'.failed = "none" /\ last'.status = "ok" /\ StepDelta.num > 0) =>
     /\ InvoiceCreated
     /\ storage'.invoices[Len(storage'.invoices)].status =
          IF getStripeCustomerByEntityId(data, last'.entityId) \in stripe.paymentMethods
          THEN "paid" ELSE "open"

C17_UpgradeInvoicePaid == [][C17_Step]_vars

\* the full-period difference of the prices, as a binary64 value
PriceDifference ==
  FromInt64(TierPrice(calc.newTier, calc.billingPeriod)
            - TierPrice(calc.oldTier, calc.billingPeriod))

\* C18: for every pair of tiers and either billing period, at an instant at
\* or after the contract's end date the proration is exactly
\* newPrice - oldPrice for that billing period.
C18_AfterEndFullDifference ==
  (calc.pc \in {"prorated", "reversed"} /\ calc.t >= calc.end_date) =>
     /\ calc.amount = PriceDifference
     /\ calc.pc = "reversed" => calc.reverse = Neg64(PriceDifference)

C18_Witness ==
  /\ calc.pc = "prorated"
  /\ calc.t = calc.end_date
  /\ calc.oldTier = "pro"
  /\ calc.newTier = "team"
  /\ calc.amount = FromInt64(20)

\* C19: for every pair of tiers and either billing period, at the contract's
\* start date (remainingDays = totalDays > 0) the proration equals the
\* full-period difference newPrice - oldPrice.
C19_AtStartFullDifference ==
  (calc.pc \in {"prorated", "reversed"} /\ calc.t = calc.start_date) =>
     calc.amount = PriceDifference

\* C20: for all tiers A and B, the same contract period and the same
\* instant, delta(A, B) = -delta(B, A).
C20_Antisymmetric ==
  calc.pc = "reversed" => calc.amount = Neg64(calc.reverse)

C20_Witness ==
  /\ calc.pc = "reversed"
  /\ calc.oldTier # calc.newTier
  /\ calc.start_date < calc.t
  /\ calc.t < calc.end_date
  /\ calc.amount.m # <<>>
  /\ calc.amount.neg
  /\ ~calc.reverse.neg

\* the contracts calculateProratedAmount can be given: those of the store
StoredContracts == {data.contracts[i] : i \in Indexes(data.contracts)}

\* C21: the proration never divides by zero: for every contract the store
\* holds and at every instant before its end date (the partial-period
\* branch), totalDays is greater than 0.
C21_TotalDaysPositive ==
  \A c \in StoredContracts :
     now < c.end_date => Ceil(c.end_date - c.start_date, MsPerDay) > 0

\* a tier change was prorated over the rest of the old contract's period
C21_Witness ==
  /\ last.op = "changeTier"
  /\ last.status = "ok"
  /\ last.hasProrated
  /\ last.proratedAmount.num # 0
  /\ \E c \in StoredContracts :
        /\ c.id # last.contract.id
        /\ c.tier = last.oldTier
        /\ c.start_date < now
        /\ now < c.end_date

\* the credit records of a customer, in the order they were applied
CreditsOf(st, customerId) == SelectSeq(st.credits, LAMBDA c : c.customer_id = customerId)

\* C22: a tier change from tier A to tier B applies exactly one signed credit
\* ledger entry of amount monthlyCredits(B) - monthlyCredits(A) for the
\* customer, whatever the billing period, and none when the difference is
\* zero.
C22_Step ==
  (SwapStep /\ last'.status = "ok") =>
     LET customerId == getMetronomeCustomerByEntityId(data, last'.entityId)
         creditDifference == DEFAULT_TIER_CONFIGS[last'.newTier].monthlyCredits
                             - DEFAULT_TIER_CONFIGS[last'.oldTier].monthlyCredits
     IN  CreditsOf(storage', customerId) =
           IF creditDifference = 0 THEN CreditsOf(storage, customerId)
           ELSE Append(CreditsOf(storage, customerId),
                       [customer_id |-> customerId, amount |-> creditDifference,
                        balance |-> creditDifference])

C22_OneCreditEntry == [][C22_Step]_vars

\* the record a step has added to the ledger
AddedCredit == storage'.credits[Len(storage'.credits)]

\* C23: a customer's credit balance equals the sum of the balance fields of
\* the customer's credit records: it is zero with no record and grows by the
\* balance of each record added for the customer; applying a credit adds one
\* new record and changes no existing one.
C23_Step ==
  storage'.credits # storage.credits =>
     /\ Len(storage'.credits) = Len(storage.credits) + 1
     /\ SubSeq(storage'.credits, 1, Len(storage.credits)) = storage.credits
     /\ AddedCredit.balance = AddedCredit.amount
     /\ \A c \in CreditCustomers :
          GetCreditsBalance(storage', c) =
            GetCreditsBalance(storage, c)
            + (IF AddedCredit.customer_id = c THEN AddedCredit.balance ELSE 0)

\* +10000 followed by -5000 is two records and a balance of 5000
C23_Example ==
  \A c \in CreditCustomers :
     /\ CreditsOf(storage, c) = <<>> => GetCreditsBalance(storage, c) = 0
     /\ (/\ Len(CreditsOf(storage, c)) = 2
         /\ CreditsOf(storage, c)[1].amount = 10000
         /\ CreditsOf(storage, c)[2].amount = 0 - 5000)
        => GetCreditsBalance(storage, c) = 5000

C23_BalanceIsSumOfRecords == [][C23_Step]_vars /\ []C23_Example

C23_Witness ==
  /\ Len(storage.credits) = 2
  /\ storage.credits[1] = [customer_id |-> CustId(1), amount |-> 10000, balance |-> 10000]
  /\ storage.credits[2] = [customer_id |-> CustId(1), amount |-> 0 - 5000,
                           balance |-> 0 - 5000]
  /\ GetCreditsBalance(storage, CustId(1)) = 5000

\* a cancelSubscription call is made
CancelStep == last = NoCall /\ last'.op = "cancelSubscription"

\* the customer's contracts that are active at the provider after the step
ActiveContractsAfter(customerId) ==
  {i \in Indexes(storage'.contracts) :
     /\ storage'.contracts[i].customer_id = customerId
     /\ storage'.contracts[i].status = "active"}

\* C24: a cancelSubscription that succeeds has cancelled the customer's
\* active contract at the provider, and when the customer has no active
\* contract the call fails with an error and makes no provider call.
C24_Step ==
  CancelStep =>
     LET customerId == getMetronomeCustomerByEntityId(data, last'.entityId)
     IN  /\ last'.status = "ok" => ActiveContractsAfter(customerId) = {}
         /\ ActiveContracts(customerId) = {} =>
              /\ last'.status = "error"
              /\ last'.calls = <<>>

C24_CancelsActiveContract == [][C24_Step]_vars

\* a reactivateSubscription call is made
ReactivateStep == last = NoCall /\ last'.op = "reactivateSubscription"

\* the customer's contracts at the provider
ContractsOf(customerId) ==
  {i \in Indexes(storage.contracts) : storage.contracts[i].customer_id = customerId}

\* those of them with the greatest created_at
LatestContracts(customerId) ==
  {k \in ContractsOf(customerId) :
     \A j \in ContractsOf(customerId) :
        storage.contracts[j].created_at <= storage.contracts[k].created_at}

\* the contract a step has added at the provider
CreatedContract == storage'.contracts[Len(storage'.contracts)]

\* C25: a reactivateSubscription that succeeds creates exactly one new
\* contract, active, whose tier and billing period are the given values or,
\* for each one omitted, those of the customer's contract with the greatest
\* created_at, whatever that contract's status.
C25_Step ==
  (ReactivateStep /\ last'.status = "ok") =>
     LET customerId == getMetronomeCustomerByEntityId(data, last'.entityId)
     IN  /\ Len(storage'.contracts) = Len(storage.contracts) + 1
         /\ SubSeq(storage'.contracts, 1, Len(storage.contracts)) = storage.contracts
         /\ CreatedContract.status = "active"
         /\ CreatedContract.customer_id = customerId
         /\ \E k \in LatestContracts(customerId) :
               /\ CreatedContract.tier =
                    IF last'.tier = "none" THEN storage.contracts[k].tier
                    ELSE last'.tier
               /\ CreatedContract.billing_period =
                    IF last'.billingPeriod = "none"
                    THEN storage.contracts[k].billing_period
                    ELSE last'.billingPeriod

C25_ReactivatesFromLatest == [][C25_Step]_vars

\* C26: reactivateSubscription for a customer for whom no contract was ever
\* created fails with a not-found error, makes no provider call and creates
\* no contract.
C26_Step ==
  ReactivateStep =>
     LET customerId == getMetronomeCustomerByEntityId(data, last'.entityId)
     IN  (customerId # 0 /\ ContractsOf(customerId) = {}) =>
            /\ last'.status = "error"
            /\ last'.error = "no_contract"
            /\ last'.calls = <<>>
            /\ UNCHANGED <<storage, data, stripe>>

C26_NoContractNotFound == [][C26_Step]_vars

C26_Witness ==
  /\ last.op = "reactivateSubscription"
  /\ last.error = "no_contract"
  /\ getMetronomeCustomerByEntityId(data, last.entityId) # 0
  /\ storage.contracts = <<>>

\* the ids of the events in the event log after a step
LoggedAfter == {data'.webhookEvents[i].id : i \in Indexes(data'.webhookEvents)}

\* C27: every event the webhook processor accepts, from either provider, is
\* in the event log by the time its handler is dispatched.
C27_Step ==
  \A provider \in Providers, id \in EventIds :
     dispatched'[<<provider, id>>] > dispatched[<<provider, id>>] => id \in LoggedAfter

C27_LoggedBeforeDispatch == [][C27_Step]_vars

\* C28: a webhook whose handler fails is re-attempted, and the delivery is
\* reported as failed to the caller only when the handler has been called
\* for it once and then maxRetries more times.
C28_Step ==
  \A s \in Slots :
     (deliveries[s].pc = "handling" /\ deliveries'[s].result = "error") =>
        deliveries[s].attempts = maxRetries + 1

C28_FailedOnlyAfterRetries == [][C28_Step]_vars

\* the delivery in slot s is of an event whose type its provider does not know
UnknownType(s) ==
  /\ deliveries[s].pc # "idle"
  /\ ~HasHandler(deliveries[s].provider, deliveries[s].type)

\* C29: an event whose type is outside the known set of its provider raises
\* no error: dispatching it runs no per-type handler, its processing
\* completes normally and marks the event id processed, and a delivery of a
\* processed id is skipped without a dispatch.
C29_Step ==
  \A s \in Slots :
     /\ (UnknownType(s)' /\ deliveries[s].pc # "handling"
         /\ deliveries'[s].pc = "handling") =>
           handlerRuns' = handlerRuns
     /\ (UnknownType(s) /\ deliveries[s].pc = "handling"
         /\ deliveries'[s].pc # "handling") =>
           /\ deliveries'[s].result = "ok"
           /\ deliveries[s].id \in processedEvents'
     /\ (deliveries[s].pc = "idle" /\ deliveries'[s].pc # "idle"
         /\ deliveries'[s].id \in processedEvents) =>
           /\ deliveries'[s].result = "skipped"
           /\ dispatched' = dispatched

C29_UnknownTypeIgnored == [][C29_Step]_vars

\* an event of unknown type was processed and its redelivery skipped
C29_Witness ==
  \E s \in Slots :
     /\ deliveries[s].type = "account.closed"
     /\ deliveries[s].result = "skipped"
     /\ \A provider \in Providers :
          /\ handlerRuns[<<provider, deliveries[s].id>>] = 0
          /\ dispatched[<<provider, deliveries[s].id>>]
             = completed[<<provider, deliveries[s].id>>]
     /\ \E provider \in Providers : completed[<<provider, deliveries[s].id>>] = 1

\* C30: after any sequence of saveWebhookEvent calls the event log holds at
\* most 1000 events, and they are the most recently appended events in their
\* order of arrival.
C30_MostRecentKept ==
  LET log == data.webhookEvents
  IN  /\ Len(log) <= 1000
      /\ Len(log) = IF received < 1000 THEN received ELSE 1000
      /\ \A i \in Indexes(log) : log[i].id = received - Len(log) + i

\* more than 1000 events were appended and the oldest ones are gone
C30_Witness ==
  /\ received = 1002
  /\ Len(data.webhookEvents) = 1000
  /\ data.webhookEvents[1].id = 3
  /\ data.webhookEvents[1000].id = 1002

\* C31: every successful changeTier, the billing-period-only path included,
\* returns the requested entityId, the tier of the previously active contract
\* as oldTier, the requested tier as newTier, and as contract the customer's
\* contract that is active at the provider after the call.
C31_Step ==
  (ChangeTierStep /\ last'.status = "ok") =>
     /\ last'.resEntityId = last'.entityId
     /\ last'.oldTier = CurrentContract(last'.entityId).tier
     /\ last'.newTier = last'.tier
     /\ last'.contract.id \in
          ActiveContractsAfter(getMetronomeCustomerByEntityId(data, last'.entityId))
     /\ last'.contract = storage'.contracts[last'.contract.id]

C31_ResultFields == [][C31_Step]_vars

\* C32: whatever retry budget the helper is called with, the wait before the
\* k-th retry is retryDelay * k, so the waits are positive and strictly
\* increasing.
C32_LinearBackoff ==
  \A k \in Indexes(retry.delays) :
     /\ retry.delays[k] = retryDelay * k
     /\ retry.delays[k] > 0
     /\ k > 1 => retry.delays[k - 1] < retry.delays[k]

\* C33: the local store never reports as active a contract that the provider
\* has cancelled, and it holds at most one active contract per customer.
C33_StoreMirrorsProvider ==
  /\ \A c \in StoredContracts :
        c.status = "active" => storage.contracts[c.id].status = "active"
  /\ \A c \in StoredContracts, d \in StoredContracts :
        (/\ c.customer_id = d.customer_id
         /\ c.status = "active"
         /\ d.status = "active") => c.id = d.id

\* C34: after any sequence of webhook deliveries, failed and redelivered
\* ones included, the event log holds at most one entry per event id.
C34_OneLogEntryPerId ==
  \A i \in Indexes(data.webhookEvents), j \in Indexes(data.webhookEvents) :
     data.webhookEvents[i].id = data.webhookEvents[j].id => i = j

\* C35: changeTier with newTier equal to the current tier and the billing
\* period omitted fails as already-on-tier and sends no contract update to
\* the provider.
C35_Step ==
  (/\ ChangeTierStep
   /\ CurrentContract(last'.entityId) # NoContract
   /\ last'.tier = CurrentContract(last'.entityId).tier
   /\ last'.billingPeriod = "none") =>
     /\ last'.status = "error"
     /\ last'.error = "already_on_tier"
     /\ last'.calls = <<>>

C35_OmittedPeriodAlreadyOnTier == [][C35_Step]_vars

\* C36: after onboarding and after every successful tier change the
\* customer's credit balance at the provider equals the monthlyCredits of
\* the tier the customer is on.
C36_BalanceIsTierCredits ==
  /\ (last.op = "onboardCustomer" /\ last.status = "ok") =>
        GetCreditsBalance(storage, last.contract.customer_id)
          = DEFAULT_TIER_CONFIGS[last.contract.tier].monthlyCredits
  /\ (last.op = "changeTier" /\ last.status = "ok" /\ last.hasProrated) =>
        GetCreditsBalance(storage, last.contract.customer_id)
          = DEFAULT_TIER_CONFIGS[last.newTier].monthlyCredits

\* C37: a delivery is never skipped because of an event from the other
\* provider: it is skipped only if an event with its id from its own
\* provider was processed before.
C37_Step ==
  \A s \in Slots :
     (/\ deliveries[s].pc = "idle"
      /\ deliveries'[s].pc # "idle"
      /\ deliveries'[s].result = "skipped") =>
        completed[<<deliveries'[s].provider, deliveries'[s].id>>] > 0

C37_NoCrossProviderSkip == [][C37_Step]_vars

\* C38: after any sequence of onboardCustomer calls, repeated calls for one
\* entity id included, the local store holds at most one subscription-provider
\* customer and at most one payment-provider customer per entity id
C38_OneCustomerPerEntity ==
  \A e \in EntityIds :
    /\ Cardinality({k \in Indexes(data.metronomeCustomers) :
                       data.metronomeCustomers[k].entity_id = e}) <= 1
    /\ Cardinality({k \in Indexes(data.stripeCustomers) :
                       data.stripeCustomers[k].entity_id = e}) <= 1

\* the sign of a binary64 value and of an integer, and |x| <= |y| for
\* binary64 values
Sign64(x) == IF x.m = <<>> THEN 0 ELSE IF x.neg THEN -1 ELSE 1

SignInt(k) == IF k = 0 THEN 0 ELSE IF k < 0 THEN -1 ELSE 1

Abs64(x) == [x EXCEPT !.neg = FALSE]

MagnitudeAtMost(x, y) == ~Sub64(Abs64(y), Abs64(x)).neg

\* the case of C39: the function has been applied at an instant inside the
\* contract's period
InsidePeriod ==
  /\ calc.pc \in {"prorated", "reversed"}
  /\ calc.start_date < calc.end_date
  /\ calc.start_date <= calc.t
  /\ calc.t < calc.end_date

C39_Days ==
  LET totalDays == Ceil(calc.end_date - calc.start_date, MsPerDay)
      remainingDays == Ceil(calc.end_date - calc.t, MsPerDay)
  IN  InsidePeriod => (1 <= remainingDays /\ remainingDays <= totalDays)

C39_Sign ==
  InsidePeriod =>
     Sign64(calc.amount) = SignInt(TierPrice(calc.newTier, calc.billingPeriod)
                                   - TierPrice(calc.oldTier, calc.billingPeriod))

C39_Magnitude == InsidePeriod => MagnitudeAtMost(calc.amount, PriceDifference)

\* C39: for a contract with startDate < endDate and an instant with
\* startDate <= now < endDate, the proration uses
\* 1 <= remainingDays <= totalDays, the delta has the sign of
\* newPrice - oldPrice, and its magnitude is at most |newPrice - oldPrice|.
C39_ProrationBounded == C39_Days /\ C39_Sign /\ C39_Magnitude

============================================================================
